---- MODULE Spec2Model ----
(***************************************************************************)
(* Appointment confirmation bot: the duplex audio relay of src/app.py      *)
(* (process_audio_streams), the voice session bookkeeping of               *)
(* src/openai_handler.py and the conversation state machine of             *)
(* src/conversation.py over the mock store of src/models/appointment.py.   *)
(*                                                                         *)
(* Spec      the relay of one call: the two forwarding loops, the two      *)
(*           connections and their peers, and the update of the call store *)
(*           when the relay has returned.                                  *)
(* LiveSpec  Spec with weak fairness on the steps the event loop runs.     *)
(* ConvSpec  one ConversationManager driven by an arbitrary client.        *)
(* CallSpec  one call of handle_media_stream from the model connection on: *)
(*           session set-up, opening line, the relay, the final update of  *)
(*           the call store.                                               *)
(* OutcomeSpec  one ConversationManager whose client also reads            *)
(*           get_conversation_outcome.                                     *)
(* SessionSpec  the relay of one call fed with user transcripts and        *)
(*           assistant speech, for a call the store knows or does not.     *)
(* ServerSpec  the registries of src/app.py under make_outbound_call and   *)
(*           the handshakes of two media streams.                          *)
(***************************************************************************)
EXTENDS Integers, Sequences, FiniteSets, TLC

VARIABLES
    \* ---- relay (src/app.py process_audio_streams) ----
    twPc,           \* receive_from_twilio: "idle" | "run" | "done"
    twExit,         \* why receive_from_twilio ended
    oaPc,           \* send_to_twilio: "idle" | "run" | "done"
    oaExit,         \* why send_to_twilio ended
    returned,       \* asyncio.gather has returned
    wsOpen,         \* openai_ws.open
    telOpen,        \* the telephony websocket is connected
    oaInbox,        \* model messages received on openai_ws, not yet iterated
    oaSent,         \* number of messages the model has sent during the relay
    toModel,        \* messages sent on openai_ws by the relay
    toTwilio,       \* frames sent on the telephony websocket by the relay
    closeCalls,     \* number of openai_ws.close() invocations
    twLog,          \* telephony frames taken by receive_from_twilio
    oaLog,          \* model messages taken by send_to_twilio
    audio_packets_sent,
    \* ---- voice session (src/openai_handler.py) ----
    conversation_transcript,
    call_outcome,
    \* ---- conversation manager (src/conversation.py) ----
    conversation_state,
    current_appointment,
    proposed_times,
    selected_time,
    lastOp,         \* the last operation run on the manager
    lastText,       \* the text given to the last process_user_response
    lastIntent,     \* intent of the last reply, "raised" when the call raised
    lastSlots,      \* the slots described in the last reply
    lastOutcome,    \* what the last get_conversation_outcome returned
    appointments,   \* AppointmentDB.appointments
    now,            \* datetime.now(), in hours since the store was built
    convOps,        \* number of operations run on the manager
    \* ---- one call (src/app.py handle_media_stream) ----
    hPc,            \* position of handle_media_stream
    attempts,       \* iterations of the set-up poll begun in initialize_session
    setupOutcome,   \* how initialize_session ended: "pending" | "confirmed" |
                    \* "unconfirmed" | "error" | "failed"
    setupSent,      \* messages sent on openai_ws before the relay
    connects,       \* number of websockets.connect calls made for the call
    calls,          \* TwilioHandler.calls
    \* ---- the server (src/app.py module state and its two endpoints) ----
    active_connections, \* call id -> telephony websocket
    active_calls,   \* call id -> what make_outbound_call recorded
    handlers,       \* the handle_media_stream task of each websocket
    placed,         \* the calls the provider has created, each with the
                    \* appointment data make_call was given
    response        \* status code of the last make_outbound_call, 0 at first

relayVars == <<twPc, twExit, oaPc, oaExit, returned, wsOpen, telOpen, oaInbox,
               oaSent, toModel, toTwilio, closeCalls, twLog, oaLog,
               audio_packets_sent, conversation_transcript, call_outcome>>
convVars == <<conversation_state, current_appointment, proposed_times,
              selected_time, lastOp, lastText, lastIntent, lastSlots,
              lastOutcome, appointments, now, convOps>>
callVars == <<hPc, attempts, setupOutcome, setupSent, connects, calls>>
serverVars == <<active_connections, active_calls, handlers, placed, response>>
vars == <<relayVars, convVars, callVars, serverVars>>

(***************************************************************************)
(* Bounds                                                                  *)
(***************************************************************************)
MaxTwFrames == 2    \* telephony frames taken during one relay
MaxOaFrames == 2    \* model messages sent during one relay
MaxInbox == 1       \* model messages received and not yet iterated
MaxConvOps == 4     \* operations run on one ConversationManager

(***************************************************************************)
(* Text: str.lower() and the substring test `word in text`                 *)
(***************************************************************************)
UpperChars == "ABCDEFGHIJKLMNOPQRSTUVWXYZ"
LowerChars == "abcdefghijklmnopqrstuvwxyz"

CharAt(s, i) == SubSeq(s, i, i)

LowerChar(c) ==
    IF \E i \in 1..Len(UpperChars) : CharAt(UpperChars, i) = c
    THEN CharAt(LowerChars, CHOOSE i \in 1..Len(UpperChars) : CharAt(UpperChars, i) = c)
    ELSE c

RECURSIVE LowerFrom(_, _)
LowerFrom(s, i) ==
    IF i > Len(s) THEN "" ELSE LowerChar(CharAt(s, i)) \o LowerFrom(s, i + 1)

\* str.lower()
Lower(s) == LowerFrom(s, 1)

Contains(text, word) ==
    \E i \in 1..(Len(text) - Len(word) + 1) : SubSeq(text, i, i + Len(word) - 1) = word

AnyIn(words, text) == \E w \in words : Contains(text, w)

(***************************************************************************)
(* base64.b64decode / base64.b64encode as CPython computes them            *)
(* (non-strict decoding: characters outside the alphabet are discarded,    *)
(* decoding stops at complete padding, leftover bits are dropped).         *)
(***************************************************************************)
B64Alphabet == "ABCDEFGHIJKLMNOPQRSTUVWXYZabcdefghijklmnopqrstuvwxyz0123456789+/"

IsB64Char(c) == \E i \in 1..Len(B64Alphabet) : CharAt(B64Alphabet, i) = c
B64Value(c) == (CHOOSE i \in 1..Len(B64Alphabet) : CharAt(B64Alphabet, i) = c) - 1
B64Char(v) == CharAt(B64Alphabet, v + 1)

DecodeError == [ok |-> FALSE, bytes |-> <<>>]

RECURSIVE a2b_base64(_, _, _, _, _, _)
a2b_base64(s, i, quad_pos, leftchar, pads, out) ==
    IF i > Len(s)
    THEN IF quad_pos # 0 THEN DecodeError ELSE [ok |-> TRUE, bytes |-> out]
    ELSE LET ch == CharAt(s, i) IN
         IF ch = "="
         THEN IF quad_pos >= 2 /\ quad_pos + pads + 1 >= 4
              THEN [ok |-> TRUE, bytes |-> out]
              ELSE a2b_base64(s, i + 1, quad_pos, leftchar,
                              IF quad_pos >= 2 THEN pads + 1 ELSE pads, out)
         ELSE IF ~IsB64Char(ch)
         THEN a2b_base64(s, i + 1, quad_pos, leftchar, pads, out)
         ELSE LET v == B64Value(ch) IN
              CASE quad_pos = 0 -> a2b_base64(s, i + 1, 1, v, 0, out)
                [] quad_pos = 1 -> a2b_base64(s, i + 1, 2, v % 16, 0,
                                              Append(out, leftchar * 4 + v \div 16))
                [] quad_pos = 2 -> a2b_base64(s, i + 1, 3, v % 4, 0,
                                              Append(out, leftchar * 16 + v \div 4))
                [] quad_pos = 3 -> a2b_base64(s, i + 1, 0, 0, 0,
                                              Append(out, leftchar * 64 + v))

b64decode(s) == a2b_base64(s, 1, 0, 0, 0, <<>>)

\* the characters that encode the bytes b[i], b[i+1], ...
RECURSIVE b2a_base64(_, _)
b2a_base64(b, i) ==
    IF i > Len(b) THEN ""
    ELSE IF i = Len(b)
    THEN B64Char(b[i] \div 4) \o B64Char((b[i] % 4) * 16) \o "=="
    ELSE IF i + 1 = Len(b)
    THEN B64Char(b[i] \div 4) \o B64Char((b[i] % 4) * 16 + b[i + 1] \div 16)
         \o B64Char((b[i + 1] % 16) * 4) \o "="
    ELSE B64Char(b[i] \div 4) \o B64Char((b[i] % 4) * 16 + b[i + 1] \div 16)
         \o B64Char((b[i + 1] % 16) * 4 + b[i + 2] \div 64) \o B64Char(b[i + 2] % 64)
         \o b2a_base64(b, i + 3)

\* mutant: the padding is left off
b64encode_Unpadded(b) ==
    LET e == b2a_base64(b, 1) IN
    IF Len(b) % 3 = 1 THEN SubSeq(e, 1, Len(e) - 2)
    ELSE IF Len(b) % 3 = 2 THEN SubSeq(e, 1, Len(e) - 1)
    ELSE e

b64encode(b) == b2a_base64(b, 1)

(***************************************************************************)
(* Frames of the two peers.  A key that a frame lacks is Absent.           *)
(***************************************************************************)
Absent == "<absent>"

TwFrame(json, event, payload, name, value) ==
    [json |-> json, event |-> event, payload |-> payload, name |-> name, value |-> value]

MediaPayloads == {"QUJD", "REVG"}

MediaFrames == {TwFrame(TRUE, "media", p, Absent, Absent) : p \in MediaPayloads}
MarkFrame(name, value) == TwFrame(TRUE, "mark", Absent, name, value)
StopFrame == TwFrame(TRUE, "stop", Absent, Absent, Absent)
\* unparseable JSON, and JSON without the event tag
MalformedTwFrames == {TwFrame(FALSE, Absent, Absent, Absent, Absent),
                      TwFrame(TRUE, Absent, Absent, Absent, Absent)}
UserTexts == {"Yes that works"}
\* the transcripts of a talk: one with a confirm word, one with a
\* reschedule word, one with neither
SessionUserTexts == {"Yes that works", "I need to reschedule", "Hello?"}
TwFrames == MediaFrames \cup MalformedTwFrames
                \cup {MarkFrame("transcript", u) : u \in UserTexts}
                \cup {StopFrame}

OaMessage(json, type, delta, str, content) ==
    [json |-> json, type |-> type, delta |-> delta, str |-> str, content |-> content]

\* "QUJD" canonical, "QR==" decodable with non-zero leftover bits (it decodes
\* to the byte of "QQ=="), "QQ=" wrongly padded
AudioPayloads == {"QUJD", "QR==", "QQ="}

AudioDelta(payload) == OaMessage(TRUE, "response.audio.delta", "str", payload, Absent)
ContentDelta(content) == OaMessage(TRUE, "response.content.delta", "obj", Absent, content)
\* unparseable JSON, and JSON without the type tag
MalformedOaMessages == {OaMessage(FALSE, Absent, Absent, Absent, Absent),
                        OaMessage(TRUE, Absent, Absent, Absent, Absent)}
AssistantTexts == {"Your appointment is confirmed"}
\* the speech of a talk: one with a confirmation phrase, one with a
\* rescheduling phrase, one with neither
SessionAssistantTexts == {"Your appointment is confirmed", "I have rescheduled you",
                          "One moment please"}
\* speech that arrives in pieces: a sentence cut inside a rescheduling
\* phrase, and a piece with no phrase in it
SpeechTexts == {"Your appointment is resch", "eduled for Friday", "One moment please"}
OaMessages == {AudioDelta(p) : p \in AudioPayloads} \cup MalformedOaMessages
                  \cup {ContentDelta(t) : t \in AssistantTexts}

Turn(role, content) == [role |-> role, content |-> content]

(***************************************************************************)
(* Voice session: OpenAIRealtimeHandler.process_openai_message             *)
(***************************************************************************)
AssistantConfirmPhrases ==
    {"confirm", "confirmed", "appointment is confirmed", "appointment is set",
     "see you on", "look forward to seeing you", "thank you for confirming",
     "glad you can make it"}
AssistantReschedulePhrases ==
    {"reschedule", "rescheduled", "new appointment", "different time",
     "another time", "alternative time", "moved your appointment",
     "changed your appointment"}

\* json.loads, response['type'] or response['delta'].get raise
ProcessOpenaiMessageRaises(m) ==
    \/ ~m.json
    \/ m.type = Absent
    \/ m.type = "response.content.delta" /\ m.delta = "str"

\* the outcome keyword detection on one piece of assistant speech
AssistantKeyword(content) ==
    IF AnyIn(AssistantConfirmPhrases, Lower(content)) THEN "confirmed"
    ELSE IF AnyIn(AssistantReschedulePhrases, Lower(content)) THEN "rescheduled"
    ELSE "None"

AssistantKeywordOf ==
    [t \in AssistantTexts \cup SessionAssistantTexts \cup SpeechTexts |->
        AssistantKeyword(t)]

\* mutant: the speech detector yields to an outcome that is already set
ProcessOpenaiMessage_KeepsFirst(m) ==
    IF m.type = "response.content.delta" /\ m.delta = "obj" /\ m.content # ""
    THEN /\ conversation_transcript' =
                Append(conversation_transcript, Turn("assistant", m.content))
         /\ call_outcome' =
                IF AssistantKeywordOf[m.content] # "None" /\ call_outcome = "None"
                THEN AssistantKeywordOf[m.content]
                ELSE call_outcome
    ELSE UNCHANGED <<conversation_transcript, call_outcome>>

\* the transcript and the outcome after process_openai_message(m) returns
ProcessOpenaiMessage(m) ==
    IF m.type = "response.content.delta" /\ m.delta = "obj" /\ m.content # ""
    THEN /\ conversation_transcript' =
                Append(conversation_transcript, Turn("assistant", m.content))
         /\ call_outcome' =
                IF AssistantKeywordOf[m.content] # "None"
                THEN AssistantKeywordOf[m.content]
                ELSE call_outcome
    ELSE UNCHANGED <<conversation_transcript, call_outcome>>

(***************************************************************************)
(* receive_from_twilio: one iteration of the loop per telephony frame      *)
(***************************************************************************)
UserConfirmWords == {"yes", "confirm", "good", "fine", "okay", "sure", "correct"}
UserRescheduleWords == {"no", "reschedule", "change", "different", "can't make", "unable"}

\* the outcome keyword detection on one user transcript
UserKeyword(transcript) ==
    IF AnyIn(UserConfirmWords, Lower(transcript)) THEN "confirmed"
    ELSE IF AnyIn(UserRescheduleWords, Lower(transcript)) THEN "rescheduled"
    ELSE "None"

UserKeywordOf == [u \in UserTexts \cup SessionUserTexts |-> UserKeyword(u)]

AudioAppend(payload) == [type |-> "input_audio_buffer.append", audio |-> payload]

\* json.loads, data['event'] or data['media']['payload'] raise
TwilioFrameRaises(f) ==
    \/ ~f.json
    \/ f.event = Absent
    \/ f.event = "media" /\ wsOpen /\ f.payload = Absent

\* `except Exception`: the loop ends, the model connection is left as it is
OnTwilioException ==
    /\ twPc' = "done"
    /\ twExit' = "error"
    /\ UNCHANGED <<wsOpen, closeCalls, toModel, conversation_transcript, call_outcome>>

\* mutant: the newest audio is put ahead of the audio already sent
OnMedia_Prepend(f) ==
    /\ toModel' = <<AudioAppend(f.payload)>> \o toModel
    /\ UNCHANGED <<twPc, twExit, wsOpen, closeCalls, conversation_transcript, call_outcome>>

OnMedia(f) ==
    /\ toModel' = Append(toModel, AudioAppend(f.payload))
    /\ UNCHANGED <<twPc, twExit, wsOpen, closeCalls, conversation_transcript, call_outcome>>

\* mutant: a transcript without a keyword takes the outcome back
OnMark_Resets(f) ==
    /\ IF f.name = "transcript" /\ f.value # Absent /\ f.value # ""
       THEN /\ conversation_transcript' =
                   Append(conversation_transcript, Turn("user", f.value))
            /\ call_outcome' = UserKeywordOf[f.value]
       ELSE UNCHANGED <<conversation_transcript, call_outcome>>
    /\ UNCHANGED <<twPc, twExit, wsOpen, closeCalls, toModel>>

OnMark(f) ==
    /\ IF f.name = "transcript" /\ f.value # Absent /\ f.value # ""
       THEN /\ conversation_transcript' =
                   Append(conversation_transcript, Turn("user", f.value))
            /\ call_outcome' =
                   IF UserKeywordOf[f.value] # "None"
                   THEN UserKeywordOf[f.value]
                   ELSE call_outcome
       ELSE UNCHANGED <<conversation_transcript, call_outcome>>
    /\ UNCHANGED <<twPc, twExit, wsOpen, closeCalls, toModel>>

CloseIfOpen ==
    IF wsOpen
    THEN wsOpen' = FALSE /\ closeCalls' = closeCalls + 1
    ELSE UNCHANGED <<wsOpen, closeCalls>>

\* mutant: the stop branch only breaks out of the loop
OnStop_NoClose ==
    /\ twPc' = "done"
    /\ twExit' = "stop"
    /\ UNCHANGED <<wsOpen, closeCalls, toModel, conversation_transcript, call_outcome>>

OnStop ==
    /\ CloseIfOpen
    /\ twPc' = "done"
    /\ twExit' = "stop"
    /\ UNCHANGED <<toModel, conversation_transcript, call_outcome>>

OnIgnoredFrame ==
    UNCHANGED <<twPc, twExit, wsOpen, closeCalls, toModel,
                conversation_transcript, call_outcome>>

TwilioDispatch(f) ==
    IF TwilioFrameRaises(f) THEN OnTwilioException
    ELSE IF f.event = "media" /\ wsOpen THEN OnMedia(f)
    ELSE IF f.event = "mark" THEN OnMark(f)
    ELSE IF f.event = "stop" THEN OnStop
    ELSE OnIgnoredFrame

ReceiveFromTwilio(f) ==
    /\ twPc = "run"
    /\ telOpen
    /\ Len(twLog) < MaxTwFrames
    /\ twLog' = Append(twLog, [frame |-> f, open |-> wsOpen])
    /\ TwilioDispatch(f)
    /\ UNCHANGED <<oaPc, oaExit, returned, telOpen, oaInbox, oaSent, toTwilio,
                   oaLog, audio_packets_sent>>
    /\ UNCHANGED <<convVars, callVars, serverVars>>

\* the telephony peer is gone and receive raises WebSocketDisconnect
TwilioDisconnectRaised ==
    /\ twPc = "run"
    /\ ~telOpen
    /\ CloseIfOpen
    /\ twPc' = "done"
    /\ twExit' = "disconnect"
    /\ UNCHANGED <<oaPc, oaExit, returned, telOpen, oaInbox, oaSent, toModel,
                   toTwilio, twLog, oaLog, audio_packets_sent,
                   conversation_transcript, call_outcome>>
    /\ UNCHANGED <<convVars, callVars, serverVars>>

\* the telephony peer is gone and iter_text() ends the iteration itself
TwilioIterationEnds ==
    /\ twPc = "run"
    /\ ~telOpen
    /\ twPc' = "done"
    /\ twExit' = "eof"
    /\ UNCHANGED <<oaPc, oaExit, returned, wsOpen, telOpen, oaInbox, oaSent,
                   toModel, toTwilio, closeCalls, twLog, oaLog,
                   audio_packets_sent, conversation_transcript, call_outcome>>
    /\ UNCHANGED <<convVars, callVars, serverVars>>

(***************************************************************************)
(* send_to_twilio: one iteration of the loop per model message             *)
(***************************************************************************)
StreamSid == "MZ1"

\* mutant: the frame is addressed to the stream named in the model's message
MediaOut_NoStream(payload) == [event |-> "media", streamSid |-> Absent, payload |-> payload]

MediaOut(payload) == [event |-> "media", streamSid |-> StreamSid, payload |-> payload]

\* response['type'] == 'response.audio.delta' and response.get('delta')
IsAudioDelta(m) ==
    /\ m.type = "response.audio.delta"
    /\ m.delta # Absent
    /\ m.delta = "str" => m.str # ""

\* base64.b64decode of each payload the model sends
DecodedPayload == [p \in AudioPayloads |-> b64decode(p)]

\* base64.b64encode(base64.b64decode(delta)).decode('utf-8') of each of them
ReencodedPayload ==
    [p \in AudioPayloads |->
        IF DecodedPayload[p].ok THEN b64encode(DecodedPayload[p].bytes) ELSE Absent]

\* base64.b64decode(response['delta']) returns
Decodable(m) == m.delta = "str" /\ DecodedPayload[m.str].ok

Reencode(payload) == ReencodedPayload[payload]

\* mutant: no inner try, a failed decode or send reaches the outer handler
ForwardAudio_NoTry(m) ==
    IF Decodable(m) /\ telOpen
    THEN /\ audio_packets_sent' = audio_packets_sent + 1
         /\ toTwilio' = Append(toTwilio, MediaOut(Reencode(m.str)))
         /\ UNCHANGED <<oaPc, oaExit>>
    ELSE /\ audio_packets_sent' = IF Decodable(m) THEN audio_packets_sent + 1
                                  ELSE audio_packets_sent
         /\ oaPc' = "done"
         /\ oaExit' = "error"
         /\ UNCHANGED toTwilio

\* the inner try block: re-encode, count, send; any exception is caught
\* by the inner `except Exception` and the loop goes on
ForwardAudio(m) ==
    /\ IF Decodable(m)
       THEN /\ audio_packets_sent' = audio_packets_sent + 1
            /\ toTwilio' = IF telOpen
                           THEN Append(toTwilio, MediaOut(Reencode(m.str)))
                           ELSE toTwilio
       ELSE UNCHANGED <<audio_packets_sent, toTwilio>>
    /\ UNCHANGED <<oaPc, oaExit>>

\* `except Exception` around the loop: the loop ends
OnOpenaiException ==
    /\ oaPc' = "done"
    /\ oaExit' = "error"
    /\ UNCHANGED <<toTwilio, audio_packets_sent, conversation_transcript, call_outcome>>

\* mutant: the newest assistant turn is put ahead of the turns already there
OnOpenaiMessage_NewestFirst(m) ==
    /\ IF m.type = "response.content.delta" /\ m.delta = "obj" /\ m.content # ""
       THEN /\ conversation_transcript' =
                   <<Turn("assistant", m.content)>> \o conversation_transcript
            /\ call_outcome' =
                   IF AssistantKeywordOf[m.content] # "None"
                   THEN AssistantKeywordOf[m.content]
                   ELSE call_outcome
       ELSE UNCHANGED <<conversation_transcript, call_outcome>>
    /\ IF IsAudioDelta(m) THEN ForwardAudio(m)
       ELSE UNCHANGED <<audio_packets_sent, toTwilio, oaPc, oaExit>>

OnOpenaiMessage(m) ==
    /\ ProcessOpenaiMessage(m)
    /\ IF IsAudioDelta(m) THEN ForwardAudio(m)
       ELSE UNCHANGED <<audio_packets_sent, toTwilio, oaPc, oaExit>>

SendToTwilio ==
    /\ oaPc = "run"
    /\ oaInbox # <<>>
    /\ LET m == Head(oaInbox) IN
         /\ oaInbox' = Tail(oaInbox)
         /\ oaLog' = Append(oaLog, [msg |-> m, tel |-> telOpen])
         /\ IF ProcessOpenaiMessageRaises(m) THEN OnOpenaiException
            ELSE OnOpenaiMessage(m)
    /\ UNCHANGED <<twPc, twExit, returned, wsOpen, telOpen, oaSent, toModel,
                   closeCalls, twLog>>
    /\ UNCHANGED <<convVars, callVars, serverVars>>

\* the model connection is closed and nothing is left to iterate
SendToTwilioEnds ==
    /\ oaPc = "run"
    /\ oaInbox = <<>>
    /\ ~wsOpen
    /\ oaPc' = "done"
    /\ oaExit' = "closed"
    /\ UNCHANGED <<twPc, twExit, returned, wsOpen, telOpen, oaInbox, oaSent,
                   toModel, toTwilio, closeCalls, twLog, oaLog,
                   audio_packets_sent, conversation_transcript, call_outcome>>
    /\ UNCHANGED <<convVars, callVars, serverVars>>

\* mutant: the relay returns as soon as one of the two loops has ended
GatherReturns_FirstCompleted ==
    /\ ~returned
    /\ twPc = "done" \/ oaPc = "done"
    /\ returned' = TRUE
    /\ UNCHANGED <<twPc, twExit, oaPc, oaExit, wsOpen, telOpen, oaInbox, oaSent,
                   toModel, toTwilio, closeCalls, twLog, oaLog,
                   audio_packets_sent, conversation_transcript, call_outcome>>
    /\ UNCHANGED <<convVars, callVars, serverVars>>

\* await asyncio.gather(receive_from_twilio(), send_to_twilio())
GatherReturns ==
    /\ ~returned
    /\ twPc = "done"
    /\ oaPc = "done"
    /\ returned' = TRUE
    /\ UNCHANGED <<twPc, twExit, oaPc, oaExit, wsOpen, telOpen, oaInbox, oaSent,
                   toModel, toTwilio, closeCalls, twLog, oaLog,
                   audio_packets_sent, conversation_transcript, call_outcome>>
    /\ UNCHANGED <<convVars, callVars, serverVars>>

(***************************************************************************)
(* The peers                                                               *)
(***************************************************************************)
ModelSends(m) ==
    /\ hPc = "relay"
    /\ ~returned
    /\ wsOpen
    /\ oaSent < MaxOaFrames
    /\ Len(oaInbox) < MaxInbox
    /\ oaInbox' = Append(oaInbox, m)
    /\ oaSent' = oaSent + 1
    /\ UNCHANGED <<twPc, twExit, oaPc, oaExit, returned, wsOpen, telOpen,
                   toModel, toTwilio, closeCalls, twLog, oaLog,
                   audio_packets_sent, conversation_transcript, call_outcome>>
    /\ UNCHANGED <<convVars, callVars, serverVars>>

ModelCloses ==
    /\ ~returned
    /\ wsOpen
    /\ wsOpen' = FALSE
    /\ UNCHANGED <<twPc, twExit, oaPc, oaExit, returned, telOpen, oaInbox,
                   oaSent, toModel, toTwilio, closeCalls, twLog, oaLog,
                   audio_packets_sent, conversation_transcript, call_outcome>>
    /\ UNCHANGED <<convVars, callVars, serverVars>>

TelephonyDisconnects ==
    /\ ~returned
    /\ telOpen
    /\ telOpen' = FALSE
    /\ UNCHANGED <<twPc, twExit, oaPc, oaExit, returned, wsOpen, oaInbox,
                   oaSent, toModel, toTwilio, closeCalls, twLog, oaLog,
                   audio_packets_sent, conversation_transcript, call_outcome>>
    /\ UNCHANGED <<convVars, callVars, serverVars>>

(***************************************************************************)
(* Mock store: AppointmentDB.  Datetimes are hours since the store was     *)
(* built, taken to be Monday, January 05 at 00:00.                         *)
(***************************************************************************)
NoTime == -1

AvailableSlots == <<81, 82, 86, 107, 111>>

InitialAppointments ==
    [i \in {"A001", "A002"} |->
        [datetime |-> IF i = "A001" THEN 26 ELSE 52, status |-> "scheduled"]]

\* AppointmentDB.get_available_slots(start_date, end_date)
get_available_slots(start_date, end_date) ==
    SelectSeq(AvailableSlots, LAMBDA slot : start_date <= slot /\ slot <= end_date)

\* mutant: the appointment is marked rescheduled and keeps its datetime
reschedule_appointment_KeepsDate(appointment_id, new_datetime) ==
    IF appointment_id \in DOMAIN appointments
    THEN [appointments EXCEPT ![appointment_id].status = "rescheduled"]
    ELSE appointments

\* AppointmentDB.reschedule_appointment(appointment_id, new_datetime)
reschedule_appointment(appointment_id, new_datetime) ==
    IF appointment_id \in DOMAIN appointments
    THEN [appointments EXCEPT ![appointment_id] =
              [datetime |-> new_datetime, status |-> "rescheduled"]]
    ELSE appointments

(***************************************************************************)
(* datetime.strftime for the formats the conversation uses, lowercased     *)
(***************************************************************************)
Digit(d) == CharAt("0123456789", d + 1)
TwoDigits(n) == Digit(n \div 10) \o Digit(n % 10)
Hour12(slot) == IF (slot % 24) % 12 = 0 THEN 12 ELSE (slot % 24) % 12

WeekdayNames == <<"monday", "tuesday", "wednesday", "thursday", "friday",
                  "saturday", "sunday">>

StrWeekday(slot) == WeekdayNames[((slot \div 24) % 7) + 1]
StrDate(slot) == "january " \o TwoDigits(5 + slot \div 24)
StrTime(slot) == TwoDigits(Hour12(slot)) \o ":00"
StrHour(slot) == IF Hour12(slot) < 10 THEN Digit(Hour12(slot)) ELSE TwoDigits(Hour12(slot))
StrAmpm(slot) == IF slot % 24 < 12 THEN "am" ELSE "pm"

(***************************************************************************)
(* ConversationManager                                                     *)
(***************************************************************************)
ConfirmWords == {"yes", "confirm", "good", "fine", "okay", "sure", "correct"}
RescheduleWords == {"no", "reschedule", "change", "different", "can't make", "unable"}
QuestionWords == {"question", "ask", "wonder", "curious"}
HelpWords == {"yes", "question", "help"}

NoAppointment == [none |-> TRUE, appointment_id |-> Absent]
AppointmentData ==
    {[none |-> FALSE, appointment_id |-> i] : i \in {"A001", "A002", "A404", Absent}}

FirstThree(seq) == SubSeq(seq, 1, IF Len(seq) < 3 THEN Len(seq) ELSE 3)

\* set_appointment(appointment_data)
SetAppointment(appointment_data) ==
    /\ convOps < MaxConvOps
    /\ convOps' = convOps + 1
    /\ current_appointment' = appointment_data
    /\ conversation_state' = "initial"
    /\ lastOp' = "set_appointment"
    /\ UNCHANGED <<proposed_times, selected_time, lastText, lastIntent,
                   lastSlots, lastOutcome, appointments, now>>
    /\ UNCHANGED <<relayVars, callVars, serverVars>>

\* mutant: the reschedule words are looked for before the confirm words
OnInitial_RescheduleFirst(text) ==
    IF AnyIn(RescheduleWords, text)
    THEN LET available_slots == get_available_slots(now, now + 7 * 24) IN
         /\ conversation_state' = "rescheduling"
         /\ proposed_times' = available_slots
         /\ lastIntent' = IF Len(available_slots) = 0 THEN "raised" ELSE "reschedule"
         /\ lastSlots' = FirstThree(available_slots)
         /\ UNCHANGED <<selected_time, appointments>>
    ELSE IF AnyIn(ConfirmWords, text)
    THEN /\ conversation_state' = "confirming"
         /\ lastIntent' = "confirm"
         /\ lastSlots' = <<>>
         /\ UNCHANGED <<proposed_times, selected_time, appointments>>
    ELSE /\ lastIntent' = "unclear"
         /\ lastSlots' = <<>>
         /\ UNCHANGED <<conversation_state, proposed_times, selected_time, appointments>>

\* phase initial
OnInitial(text) ==
    IF AnyIn(ConfirmWords, text)
    THEN /\ conversation_state' = "confirming"
         /\ lastIntent' = "confirm"
         /\ lastSlots' = <<>>
         /\ UNCHANGED <<proposed_times, selected_time, appointments>>
    ELSE IF AnyIn(RescheduleWords, text)
    THEN LET available_slots == get_available_slots(now, now + 7 * 24) IN
         /\ conversation_state' = "rescheduling"
         /\ proposed_times' = available_slots
         /\ lastIntent' = IF Len(available_slots) = 0 THEN "raised" ELSE "reschedule"
         /\ lastSlots' = FirstThree(available_slots)
         /\ UNCHANGED <<selected_time, appointments>>
    ELSE /\ lastIntent' = "unclear"
         /\ lastSlots' = <<>>
         /\ UNCHANGED <<conversation_state, proposed_times, selected_time, appointments>>

\* mutant: the good-bye marks the appointment confirmed in the store, as
\* AppointmentDB.confirm_appointment does
OnConfirming_ConfirmsInStore(text) ==
    IF AnyIn(QuestionWords, text)
    THEN /\ lastIntent' = "question"
         /\ lastSlots' = <<>>
         /\ UNCHANGED <<conversation_state, proposed_times, selected_time, appointments>>
    ELSE /\ conversation_state' = "completed"
         /\ lastIntent' = IF current_appointment.none THEN "raised" ELSE "complete"
         /\ appointments' =
                IF ~current_appointment.none
                   /\ current_appointment.appointment_id \in DOMAIN appointments
                THEN [appointments EXCEPT
                          ![current_appointment.appointment_id].status = "confirmed"]
                ELSE appointments
         /\ lastSlots' = <<>>
         /\ UNCHANGED <<proposed_times, selected_time>>

\* mutant: the appointment is looked up in the store before the good-bye
OnConfirming_LooksUp(text) ==
    IF AnyIn(QuestionWords, text)
    THEN /\ lastIntent' = "question"
         /\ lastSlots' = <<>>
         /\ UNCHANGED <<conversation_state, proposed_times, selected_time, appointments>>
    ELSE IF ~current_appointment.none
            /\ current_appointment.appointment_id \notin DOMAIN appointments
    THEN /\ lastIntent' = "unknown"
         /\ lastSlots' = <<>>
         /\ UNCHANGED <<conversation_state, proposed_times, selected_time, appointments>>
    ELSE /\ conversation_state' = "completed"
         /\ lastIntent' = IF current_appointment.none THEN "raised" ELSE "complete"
         /\ lastSlots' = <<>>
         /\ UNCHANGED <<proposed_times, selected_time, appointments>>

\* phase confirming
OnConfirming(text) ==
    IF AnyIn(QuestionWords, text)
    THEN /\ lastIntent' = "question"
         /\ lastSlots' = <<>>
         /\ UNCHANGED <<conversation_state, proposed_times, selected_time, appointments>>
    ELSE /\ conversation_state' = "completed"
         /\ lastIntent' = IF current_appointment.none THEN "raised" ELSE "complete"
         /\ lastSlots' = <<>>
         /\ UNCHANGED <<proposed_times, selected_time, appointments>>

NoIndex == -1

\* the ordinal phrases
OrdinalIndex(text) ==
    IF Contains(text, "first") \/ Contains(text, "1st")
           \/ Contains(text, "option 1") \/ Contains(text, "option one") THEN 0
    ELSE IF Contains(text, "second") \/ Contains(text, "2nd")
           \/ Contains(text, "option 2") \/ Contains(text, "option two") THEN 1
    ELSE IF Contains(text, "third") \/ Contains(text, "3rd")
           \/ Contains(text, "option 3") \/ Contains(text, "option three") THEN 2
    ELSE NoIndex

SlotMentioned(slot, text) ==
    \/ Contains(text, StrWeekday(slot))
    \/ Contains(text, StrDate(slot))
    \/ Contains(text, StrTime(slot))
    \/ Contains(text, StrHour(slot) \o " " \o StrAmpm(slot))

\* the first of the first three proposed slots that the text mentions
MentionIndex(text) ==
    LET offered == FirstThree(proposed_times)
        hits == {i \in 1..Len(offered) : SlotMentioned(offered[i], text)}
    IN IF hits = {} THEN NoIndex
       ELSE (CHOOSE i \in hits : \A j \in hits : i <= j) - 1

\* mutant: a weekday, date or time in the text is looked for before an ordinal
SelectedIndex_MentionFirst(text) ==
    IF MentionIndex(text) # NoIndex THEN MentionIndex(text) ELSE OrdinalIndex(text)

SelectedIndex(text) ==
    IF OrdinalIndex(text) # NoIndex THEN OrdinalIndex(text) ELSE MentionIndex(text)

\* mutant: an answer that names no slot withdraws the offer
OnRescheduling_Withdraws(text) ==
    LET selected_index == SelectedIndex(text) IN
    IF selected_index # NoIndex /\ selected_index < Len(proposed_times)
    THEN /\ selected_time' = proposed_times[selected_index + 1]
         /\ conversation_state' = "completed"
         /\ appointments' =
                IF ~current_appointment.none /\ current_appointment.appointment_id # Absent
                THEN reschedule_appointment(current_appointment.appointment_id,
                                            proposed_times[selected_index + 1])
                ELSE appointments
         /\ lastIntent' = "reschedule_confirmed"
         /\ lastSlots' = <<>>
         /\ UNCHANGED proposed_times
    ELSE /\ lastIntent' = "unclear_time"
         /\ lastSlots' = <<>>
         /\ proposed_times' = <<>>
         /\ UNCHANGED <<conversation_state, selected_time, appointments>>

\* phase rescheduling
OnRescheduling(text) ==
    LET selected_index == SelectedIndex(text) IN
    IF selected_index # NoIndex /\ selected_index < Len(proposed_times)
    THEN /\ selected_time' = proposed_times[selected_index + 1]
         /\ conversation_state' = "completed"
         /\ appointments' =
                IF ~current_appointment.none /\ current_appointment.appointment_id # Absent
                THEN reschedule_appointment(current_appointment.appointment_id,
                                            proposed_times[selected_index + 1])
                ELSE appointments
         /\ lastIntent' = "reschedule_confirmed"
         /\ lastSlots' = <<>>
         /\ UNCHANGED proposed_times
    ELSE /\ lastIntent' = "unclear_time"
         /\ lastSlots' = <<>>
         /\ UNCHANGED <<conversation_state, proposed_times, selected_time, appointments>>

\* mutant: a request for more help starts the script over
OnCompleted_Restart(text) ==
    /\ lastIntent' = IF AnyIn(HelpWords, text) THEN "additional_help" ELSE "goodbye"
    /\ conversation_state' = IF AnyIn(HelpWords, text) THEN "initial" ELSE conversation_state
    /\ lastSlots' = <<>>
    /\ UNCHANGED <<proposed_times, selected_time, appointments>>

\* phase completed
OnCompleted(text) ==
    /\ lastIntent' = IF AnyIn(HelpWords, text) THEN "additional_help" ELSE "goodbye"
    /\ lastSlots' = <<>>
    /\ UNCHANGED <<conversation_state, proposed_times, selected_time, appointments>>

\* what the user says
ConvTexts == {"Yes, that works", "No I can't make it", "Hello?",
              "The second one works", "Thursday at 9 AM", "I have a question",
              "The third", "Second one at 10:00", "Friday please",
              "No problem, that is fine", "The first, on Friday"}

\* text.lower() of each of them
LowerOf == [u \in ConvTexts |-> Lower(u)]

\* process_user_response(text)
ProcessUserResponse(utterance) ==
    /\ convOps < MaxConvOps
    /\ convOps' = convOps + 1
    /\ lastOp' = "process_user_response"
    /\ lastText' = utterance
    /\ LET text == LowerOf[utterance] IN
         CASE conversation_state = "initial" -> OnInitial(text)
           [] conversation_state = "confirming" -> OnConfirming(text)
           [] conversation_state = "rescheduling" -> OnRescheduling(text)
           [] conversation_state = "completed" -> OnCompleted(text)
    /\ UNCHANGED <<current_appointment, lastOutcome, now>>
    /\ UNCHANGED <<relayVars, callVars, serverVars>>

\* get_conversation_outcome(): the dictionary it returns; a key the
\* dictionary does not have is Absent, NoTime or NoAppointment here
get_conversation_outcome ==
    IF conversation_state = "completed"
    THEN IF selected_time # NoTime
         THEN [outcome |-> "rescheduled", new_datetime |-> selected_time,
               state |-> Absent, appointment |-> current_appointment]
         ELSE [outcome |-> "confirmed", new_datetime |-> NoTime,
               state |-> Absent, appointment |-> current_appointment]
    ELSE [outcome |-> "incomplete", new_datetime |-> NoTime,
          state |-> conversation_state, appointment |-> NoAppointment]

\* no get_conversation_outcome has returned yet
NoOutcome ==
    [outcome |-> "unread", new_datetime |-> NoTime, state |-> Absent,
     appointment |-> NoAppointment]

\* mutant: reading the outcome takes the selected slot away
GetConversationOutcome_Consumes ==
    /\ lastOutcome' = get_conversation_outcome
    /\ lastOp' = "get_conversation_outcome"
    /\ selected_time' = NoTime
    /\ UNCHANGED <<conversation_state, current_appointment, proposed_times,
                   lastText, lastIntent, lastSlots, appointments, now,
                   convOps>>
    /\ UNCHANGED <<relayVars, callVars, serverVars>>

\* a client calls get_conversation_outcome()
GetConversationOutcome ==
    /\ lastOutcome' = get_conversation_outcome
    /\ lastOp' = "get_conversation_outcome"
    /\ UNCHANGED <<conversation_state, current_appointment, proposed_times,
                   selected_time, lastText, lastIntent, lastSlots,
                   appointments, now, convOps>>
    /\ UNCHANGED <<relayVars, callVars, serverVars>>

\* the clock moves on between two operations
NowTimes == {0, 82, 107, 112}

ClockAdvances(t) ==
    /\ convOps < MaxConvOps
    /\ t > now
    /\ now' = t
    /\ lastOp' = "clock"
    /\ UNCHANGED <<conversation_state, current_appointment, proposed_times,
                   selected_time, lastText, lastIntent, lastSlots,
                   lastOutcome, appointments, convOps>>
    /\ UNCHANGED <<relayVars, callVars, serverVars>>

(***************************************************************************)
(* One call: handle_media_stream from `async with websockets.connect` on,  *)
(* and OpenAIRealtimeHandler.initialize_session                            *)
(***************************************************************************)
CallSid == "CA1"

\* TwilioHandler.calls as constructed: the call was not placed by make_call
NoCalls == [c \in {} |-> [transcript |-> <<>>, outcome |-> "None"]]

\* TwilioHandler.calls after make_call has placed the call
PlacedCalls == [c \in {CallSid} |-> [transcript |-> <<>>, outcome |-> "None"]]

\* the opening line of a call without appointment context
Greeting == "Hi there! This is Samantha, an automated assistant calling from DentaVille Dental Clinic. Is now a good time for a quick chat about your upcoming appointment?"

SystemTurn == Turn("system", "Call initiated with appointment confirmation bot.")

\* range(5): the iterations of the set-up poll
PollBudget == 5

\* what one `await asyncio.wait_for(openai_ws.recv(), timeout=2.0)` brings
SetupResponses == {"timeout", "session.created", "session.updated", "error", "not json"}

\* leaving the `async with` block closes the model connection
ExitAsyncWith ==
    /\ hPc' = "ended"
    /\ wsOpen' = FALSE

\* mutant: the exception is logged and the call goes on to the opening line
SetupRaises_Swallowed(outcome) ==
    /\ setupOutcome' = outcome
    /\ attempts' = 0
    /\ hPc' = "opening"
    /\ UNCHANGED <<wsOpen, setupSent, connects, calls>>

\* initialize_session raises; handle_media_stream logs it and ends the call
SetupRaises(outcome) ==
    /\ setupOutcome' = outcome
    /\ attempts' = 0
    /\ ExitAsyncWith
    /\ UNCHANGED <<setupSent, connects, calls>>

\* initialize_session returns; its loop counter is gone with it
SetupReturns(outcome) ==
    /\ setupOutcome' = outcome
    /\ attempts' = 0
    /\ hPc' = "opening"
    /\ UNCHANGED <<wsOpen, setupSent, connects, calls>>

\* initialize_session up to the first receive: the transcript is started and
\* the session.update is sent
InitializeSession ==
    /\ hPc = "initialize"
    /\ conversation_transcript' = <<SystemTurn>>
    /\ IF wsOpen
       THEN /\ setupSent' = Append(setupSent, "session.update")
            /\ hPc' = "poll"
            /\ UNCHANGED <<wsOpen, attempts, setupOutcome, connects, calls>>
       ELSE SetupRaises("failed")
    /\ UNCHANGED <<twPc, twExit, oaPc, oaExit, returned, telOpen, oaInbox,
                   oaSent, toModel, toTwilio, closeCalls, twLog, oaLog,
                   audio_packets_sent, call_outcome>>
    /\ UNCHANGED <<convVars, serverVars>>

\* one iteration of `for _ in range(5)`
PollAttempt(r) ==
    /\ hPc = "poll"
    /\ attempts < PollBudget
    /\ IF ~wsOpen \/ r = "not json"
       THEN SetupRaises("failed")
       ELSE IF r = "error"
       THEN SetupRaises("error")
       ELSE IF r = "session.created"
       THEN SetupReturns("confirmed")
       ELSE IF attempts + 1 = PollBudget
       THEN SetupReturns("unconfirmed")
       ELSE /\ attempts' = attempts + 1
            /\ UNCHANGED <<hPc, wsOpen, setupOutcome, setupSent, connects, calls>>
    /\ UNCHANGED <<twPc, twExit, oaPc, oaExit, returned, telOpen, oaInbox,
                   oaSent, toModel, toTwilio, closeCalls, twLog, oaLog,
                   audio_packets_sent, conversation_transcript, call_outcome>>
    /\ UNCHANGED <<convVars, serverVars>>

\* send_initial_conversation_item; a failed send is caught by
\* handle_media_stream, which ends the call
SendInitialConversationItem ==
    /\ hPc = "opening"
    /\ IF wsOpen
       THEN /\ setupSent' = setupSent \o <<"conversation.item.create", "response.create">>
            /\ conversation_transcript' =
                   Append(conversation_transcript, Turn("assistant", Greeting))
            /\ hPc' = "start"
            /\ UNCHANGED wsOpen
       ELSE /\ ExitAsyncWith
            /\ UNCHANGED <<setupSent, conversation_transcript>>
    /\ UNCHANGED <<attempts, setupOutcome, connects, calls>>
    /\ UNCHANGED <<twPc, twExit, oaPc, oaExit, returned, telOpen, oaInbox,
                   oaSent, toModel, toTwilio, closeCalls, twLog, oaLog,
                   audio_packets_sent, call_outcome>>
    /\ UNCHANGED <<convVars, serverVars>>

\* the call carries no appointment context, so set_appointment is skipped;
\* process_audio_streams starts the two loops
ProcessAudioStreamsStarts ==
    /\ hPc = "start"
    /\ hPc' = "relay"
    /\ twPc' = "run"
    /\ oaPc' = "run"
    /\ UNCHANGED <<attempts, setupOutcome, setupSent, connects, calls>>
    /\ UNCHANGED <<twExit, oaExit, returned, wsOpen, telOpen, oaInbox, oaSent,
                   toModel, toTwilio, closeCalls, twLog, oaLog,
                   audio_packets_sent, conversation_transcript, call_outcome>>
    /\ UNCHANGED <<convVars, serverVars>>

\* TwilioHandler.update_call_transcript and update_call_outcome
update_call(call_sid, transcript, outcome) ==
    IF call_sid \in DOMAIN calls
    THEN [calls EXCEPT ![call_sid] = [transcript |-> transcript, outcome |-> outcome]]
    ELSE calls

\* TwilioHandler.get_call_transcript and get_call_outcome
get_call_transcript(call_sid) ==
    IF call_sid \in DOMAIN calls THEN calls[call_sid].transcript ELSE <<>>
get_call_outcome(call_sid) ==
    IF call_sid \in DOMAIN calls THEN calls[call_sid].outcome ELSE "None"

\* the relay has returned: the transcript and the outcome of the voice
\* session are written to the call store and the call ends
UpdateCallData ==
    /\ hPc = "relay"
    /\ returned
    /\ calls' = update_call(CallSid, conversation_transcript, call_outcome)
    /\ ExitAsyncWith
    /\ UNCHANGED <<attempts, setupOutcome, setupSent, connects>>
    /\ UNCHANGED <<twPc, twExit, oaPc, oaExit, returned, telOpen, oaInbox,
                   oaSent, toModel, toTwilio, closeCalls, twLog, oaLog,
                   audio_packets_sent, conversation_transcript, call_outcome>>
    /\ UNCHANGED <<convVars, serverVars>>

(***************************************************************************)
(* The server: the registries of src/app.py, make_outbound_call and the    *)
(* handshake of handle_media_stream, for several calls at a time.  What a  *)
(* handler does between the handshake and the end of its relay is one      *)
(* step here.  The event loop runs one task at a time and switches tasks   *)
(* at an await that suspends: an action is the code between two of them.   *)
(***************************************************************************)
Sockets == {"W1", "W2"}
\* the ids the provider gives to the calls make_call creates, and the id of
\* a call that comes in
OutboundIds == {"CA1", "CA2"}
InboundIds == {"CA9"}

Put(f, k, v) == [x \in DOMAIN f \cup {k} |-> IF x = k THEN v ELSE f[x]]
Without(f, k) == [x \in DOMAIN f \ {k} |-> f[x]]
EmptyDict == [x \in {} |-> Absent]

IdleHandler == [pc |-> "idle", call_sid |-> Absent, appointment_data |-> NoAppointment]

\* the module state of src/app.py as constructed
ServerConstructed ==
    /\ active_connections = EmptyDict
    /\ active_calls = EmptyDict
    /\ handlers = [w \in Sockets |-> IdleHandler]
    /\ placed = EmptyDict
    /\ response = 0

\* the bodies POSTed to /make-call: unparseable, or with the two keys
\* present or not; "+15550001" may be called, "+15550002" may not
AllowedNumbers == {"+15550001"}
MakeCallRequests ==
    {[json |-> FALSE, to_number |-> Absent, appointment_id |-> Absent]} \cup
    {[json |-> TRUE, to_number |-> n, appointment_id |-> i] :
        n \in {Absent, "+15550001", "+15550002"},
        i \in {Absent, "A001", "A002", "A404"}}

\* Database.get_appointment_details: {} for an unknown appointment
get_appointment_details(appointment_id) ==
    IF appointment_id \in DOMAIN appointments
    THEN [none |-> FALSE, appointment_id |-> appointment_id]
    ELSE NoAppointment

JsonResponse(status) ==
    /\ response' = status
    /\ UNCHANGED <<calls, active_calls, placed>>

\* mutant: the handler is suspended after the provider has created the call,
\* and the registry is not written in this step
MakeOutboundCall_Suspended(req, created) ==
    /\ IF ~req.json THEN JsonResponse(500)
       ELSE IF req.to_number = Absent THEN JsonResponse(400)
       ELSE IF req.appointment_id # Absent
               /\ get_appointment_details(req.appointment_id) = NoAppointment
       THEN JsonResponse(404)
       ELSE IF req.to_number \notin AllowedNumbers \/ ~created
               \/ OutboundIds \subseteq DOMAIN placed
       THEN JsonResponse(400)
       ELSE \E sid \in OutboundIds \ DOMAIN placed :
              LET appointment_data ==
                      IF req.appointment_id = Absent THEN NoAppointment
                      ELSE get_appointment_details(req.appointment_id) IN
              /\ placed' = Put(placed, sid, appointment_data)
              /\ calls' = Put(calls, sid, [transcript |-> <<>>, outcome |-> "None"])
              /\ response' = 200
              /\ UNCHANGED active_calls
    /\ UNCHANGED <<active_connections, handlers>>
    /\ UNCHANGED <<hPc, attempts, setupOutcome, setupSent, connects>>
    /\ UNCHANGED <<relayVars, convVars>>

\* mutant: make_call records the call in its store before it asks the
\* provider, and the record stays when the provider refuses
MakeOutboundCall_RecordsFirst(req, created) ==
    /\ IF ~req.json THEN JsonResponse(500)
       ELSE IF req.to_number = Absent THEN JsonResponse(400)
       ELSE IF req.appointment_id # Absent
               /\ get_appointment_details(req.appointment_id) = NoAppointment
       THEN JsonResponse(404)
       ELSE IF req.to_number \notin AllowedNumbers
               \/ OutboundIds \subseteq DOMAIN placed
       THEN JsonResponse(400)
       ELSE \E sid \in OutboundIds \ DOMAIN placed :
              LET appointment_data ==
                      IF req.appointment_id = Absent THEN NoAppointment
                      ELSE get_appointment_details(req.appointment_id) IN
              /\ calls' = Put(calls, sid, [transcript |-> <<>>, outcome |-> "None"])
              /\ IF created
                 THEN /\ placed' = Put(placed, sid, appointment_data)
                      /\ active_calls' = Put(active_calls, sid,
                                             [to |-> req.to_number,
                                              appointment_data |-> appointment_data])
                      /\ response' = 200
                 ELSE /\ response' = 400
                      /\ UNCHANGED <<placed, active_calls>>
    /\ UNCHANGED <<active_connections, handlers>>
    /\ UNCHANGED <<hPc, attempts, setupOutcome, setupSent, connects>>
    /\ UNCHANGED <<relayVars, convVars>>

\* make_outbound_call from the return of `await request.json()` to its
\* return, with TwilioHandler.make_call: check_number_allowed and make_call
\* hold no await that suspends and calls.create is a blocking call, so the
\* event loop runs nothing else before active_calls is written.  `created`
\* tells whether calls.create returned or raised; it raises as well once
\* the provider has given out every id of OutboundIds.
MakeOutboundCall(req, created) ==
    /\ IF ~req.json THEN JsonResponse(500)
       ELSE IF req.to_number = Absent THEN JsonResponse(400)
       ELSE IF req.appointment_id # Absent
               /\ get_appointment_details(req.appointment_id) = NoAppointment
       THEN JsonResponse(404)
       ELSE IF req.to_number \notin AllowedNumbers \/ ~created
               \/ OutboundIds \subseteq DOMAIN placed
       THEN JsonResponse(400)
       ELSE \E sid \in OutboundIds \ DOMAIN placed :
              LET appointment_data ==
                      IF req.appointment_id = Absent THEN NoAppointment
                      ELSE get_appointment_details(req.appointment_id) IN
              /\ placed' = Put(placed, sid, appointment_data)
              /\ calls' = Put(calls, sid, [transcript |-> <<>>, outcome |-> "None"])
              /\ active_calls' = Put(active_calls, sid,
                                     [to |-> req.to_number,
                                      appointment_data |-> appointment_data])
              /\ response' = 200
    /\ UNCHANGED <<active_connections, handlers>>
    /\ UNCHANGED <<hPc, attempts, setupOutcome, setupSent, connects>>
    /\ UNCHANGED <<relayVars, convVars>>

\* `await websocket.accept()`
Accept(w) ==
    /\ handlers[w].pc = "idle"
    /\ handlers' = [handlers EXCEPT ![w].pc = "first"]
    /\ UNCHANGED <<active_connections, active_calls, placed, response>>
    /\ UNCHANGED <<relayVars, convVars, callVars>>

\* what `await websocket.receive_text()` brings during the handshake: a
\* frame with its event and its callSid, or WebSocketDisconnect.  The
\* provider names an outbound call only once it has created it.
HandshakeEvent(event, callSid) == [event |-> event, callSid |-> callSid]
HandshakeEvents ==
    {HandshakeEvent(e, Absent) : e \in {"connected", "media", "disconnect", Absent}}
        \cup {HandshakeEvent("start", c) : c \in OutboundIds \cup InboundIds \cup {Absent}}

\* the `finally` of handle_media_stream
Finally(w, call_sid, connections) ==
    /\ active_connections' =
           IF call_sid # Absent /\ call_sid \in DOMAIN connections
           THEN Without(connections, call_sid)
           ELSE connections
    /\ handlers' = [handlers EXCEPT ![w].pc = "done"]

\* the call id is known: the connection is recorded and the handler goes on
\* to connect to the model
Proceed(w, call_sid, appointment_data) ==
    /\ active_connections' = Put(active_connections, call_sid, w)
    /\ handlers' = [handlers EXCEPT ![w] = [pc |-> "session", call_sid |-> call_sid,
                                            appointment_data |-> appointment_data]]

\* the first frame that is not `connected`: json.loads or data['event'] or
\* data['start']['callSid'] raise, or the start event names the call, or
\* any other event gets a temporary call id
OnHandshake(w, e) ==
    IF e.event \in {"disconnect", Absent} \/ (e.event = "start" /\ e.callSid = Absent)
    THEN Finally(w, Absent, active_connections)
    ELSE IF e.event = "start"
    THEN Proceed(w, e.callSid,
                 IF e.callSid \in DOMAIN active_calls
                 THEN active_calls[e.callSid].appointment_data
                 ELSE NoAppointment)
    ELSE Proceed(w, "temp_call_" \o w, NoAppointment)

\* one `await websocket.receive_text()` of the handshake returns or raises
ReceiveHandshake(w, e) ==
    /\ handlers[w].pc \in {"first", "second"}
    /\ e.event = "start" /\ e.callSid \in OutboundIds => e.callSid \in DOMAIN placed
    /\ IF handlers[w].pc = "first" /\ e.event = "connected"
       THEN /\ handlers' = [handlers EXCEPT ![w].pc = "second"]
            /\ UNCHANGED active_connections
       ELSE OnHandshake(w, e)
    /\ UNCHANGED <<active_calls, placed, response>>
    /\ UNCHANGED <<relayVars, convVars, callVars>>

\* the model connection, the session set-up and the opening line succeed
\* (ok), the manager is given the appointment data if there is any and the
\* relay starts; or one of them fails and the handler ends
RelayStarts(w, ok) ==
    /\ handlers[w].pc = "session"
    /\ IF ok
       THEN /\ handlers' = [handlers EXCEPT ![w].pc = "relay"]
            /\ UNCHANGED active_connections
            /\ IF handlers[w].appointment_data # NoAppointment
               THEN /\ current_appointment' = handlers[w].appointment_data
                    /\ conversation_state' = "initial"
                    /\ lastOp' = "set_appointment"
               ELSE UNCHANGED <<conversation_state, current_appointment, lastOp>>
       ELSE /\ Finally(w, handlers[w].call_sid, active_connections)
            /\ UNCHANGED <<conversation_state, current_appointment, lastOp>>
    /\ UNCHANGED <<proposed_times, selected_time, lastText, lastIntent,
                   lastSlots, lastOutcome, appointments, now, convOps>>
    /\ UNCHANGED <<active_calls, placed, response>>
    /\ UNCHANGED <<relayVars, callVars>>

\* the outcomes a voice session can end with
SessionOutcomes == {"None", "confirmed", "rescheduled"}

\* process_audio_streams returns: the transcript and the outcome of the
\* voice session go to the call store, then the `finally` runs
RelayEnds(w, outcome) ==
    /\ handlers[w].pc = "relay"
    /\ calls' = update_call(handlers[w].call_sid, <<SystemTurn>>, outcome)
    /\ Finally(w, handlers[w].call_sid, active_connections)
    /\ UNCHANGED <<active_calls, placed, response>>
    /\ UNCHANGED <<hPc, attempts, setupOutcome, setupSent, connects>>
    /\ UNCHANGED <<relayVars, convVars>>

(***************************************************************************)
(* Specifications                                                          *)
(***************************************************************************)

\* the relay is entered with both connections open, after the session
\* set-up has written the first two turns of the transcript; the manager
\* and the store are as constructed
RelayEntered ==
    /\ twPc = "run"
    /\ twExit = "none"
    /\ oaPc = "run"
    /\ oaExit = "none"
    /\ returned = FALSE
    /\ wsOpen = TRUE
    /\ telOpen = TRUE
    /\ oaInbox = <<>>
    /\ oaSent = 0
    /\ toModel = <<>>
    /\ toTwilio = <<>>
    /\ closeCalls = 0
    /\ twLog = <<>>
    /\ oaLog = <<>>
    /\ audio_packets_sent = 0
    /\ conversation_transcript = <<SystemTurn, Turn("assistant", Greeting)>>
    /\ call_outcome = "None"
    /\ conversation_state = "initial"
    /\ current_appointment = NoAppointment
    /\ proposed_times = <<>>
    /\ selected_time = NoTime
    /\ lastOp = "none"
    /\ lastText = ""
    /\ lastIntent = "none"
    /\ lastSlots = <<>>
    /\ lastOutcome = NoOutcome
    /\ appointments = InitialAppointments
    /\ now = 0
    /\ convOps = 0
    /\ hPc = "relay"
    /\ attempts = 0
    /\ setupOutcome = "confirmed"
    /\ setupSent = <<"session.update", "conversation.item.create", "response.create">>
    /\ connects = 1
    /\ ServerConstructed

\* the call was placed by make_call
Init ==
    /\ RelayEntered
    /\ calls = PlacedCalls

Next ==
    \/ \E f \in TwFrames : ReceiveFromTwilio(f)
    \/ TwilioDisconnectRaised
    \/ TwilioIterationEnds
    \/ SendToTwilio
    \/ SendToTwilioEnds
    \/ GatherReturns
    \/ UpdateCallData
    \/ \E m \in OaMessages : ModelSends(m)
    \/ ModelCloses
    \/ TelephonyDisconnects

Spec == Init /\ [][Next]_vars

\* the event loop runs every task that is ready; the peers owe nothing
LiveSpec ==
    /\ Spec
    /\ WF_vars(TwilioDisconnectRaised \/ TwilioIterationEnds)
    /\ WF_vars(SendToTwilio)
    /\ WF_vars(SendToTwilioEnds)
    /\ WF_vars(GatherReturns)

\* the frames and the messages of a talk: transcripts, speech, the end
SessionTwFrames == {MarkFrame("transcript", u) : u \in SessionUserTexts} \cup {StopFrame}
SessionOaMessages == {ContentDelta(t) : t \in SessionAssistantTexts}

\* the call was placed by make_call, or it came in and the store has
\* no entry for it
SessionInit ==
    /\ RelayEntered
    /\ calls \in {PlacedCalls, NoCalls}

SessionNext ==
    \/ \E f \in SessionTwFrames : ReceiveFromTwilio(f)
    \/ TwilioDisconnectRaised
    \/ TwilioIterationEnds
    \/ SendToTwilio
    \/ SendToTwilioEnds
    \/ GatherReturns
    \/ UpdateCallData
    \/ \E m \in SessionOaMessages : ModelSends(m)
    \/ ModelCloses
    \/ TelephonyDisconnects

SessionSpec == SessionInit /\ [][SessionNext]_vars

\* the relay of a call whose model speaks in pieces
SpeechOaMessages == {ContentDelta(t) : t \in SpeechTexts}

SpeechNext ==
    \/ ReceiveFromTwilio(StopFrame)
    \/ TwilioDisconnectRaised
    \/ TwilioIterationEnds
    \/ SendToTwilio
    \/ SendToTwilioEnds
    \/ GatherReturns
    \/ UpdateCallData
    \/ \E m \in SpeechOaMessages : ModelSends(m)
    \/ ModelCloses
    \/ TelephonyDisconnects

SpeechSpec == Init /\ [][SpeechNext]_vars

ConvNext ==
    \/ \E a \in AppointmentData : SetAppointment(a)
    \/ \E u \in ConvTexts : ProcessUserResponse(u)
    \/ \E t \in NowTimes : ClockAdvances(t)

ConvSpec == Init /\ [][ConvNext]_vars

\* the utterances and the appointments that take a conversation through
\* every phase, for a client that also reads the outcome
OutcomeTexts == {"Yes, that works", "No I can't make it", "The second one works", "Hello?"}
OutcomeAppointments == {a \in AppointmentData : a.appointment_id \in {"A001", Absent}}

OutcomeNext ==
    \/ \E a \in OutcomeAppointments : SetAppointment(a)
    \/ \E u \in OutcomeTexts : ProcessUserResponse(u)
    \/ GetConversationOutcome

OutcomeSpec == Init /\ [][OutcomeNext]_vars

\* the stream of the next call starts: handle_media_stream hands its
\* appointment data, when it has some, to the one manager of the process
AttachAppointment(appointment_data) ==
    /\ appointment_data # NoAppointment
    /\ current_appointment' = appointment_data
    /\ conversation_state' = "initial"
    /\ lastOp' = "set_appointment"
    /\ UNCHANGED <<proposed_times, selected_time, lastText, lastIntent,
                   lastSlots, lastOutcome, appointments, now, convOps>>
    /\ UNCHANGED <<relayVars, callVars, serverVars>>

\* one call after the other on the manager of the process: each stream
\* attaches its appointment, the caller speaks, a client reads the outcome
SuccessionNext ==
    \/ \E a \in AppointmentData : AttachAppointment(a)
    \/ \E u \in OutcomeTexts : ProcessUserResponse(u)
    \/ GetConversationOutcome

SuccessionSpec == Init /\ [][SuccessionNext]_vars

\* the model connection has just been opened; the voice session, the
\* manager and the store are as constructed
CallInit ==
    /\ twPc = "idle"
    /\ twExit = "none"
    /\ oaPc = "idle"
    /\ oaExit = "none"
    /\ returned = FALSE
    /\ wsOpen = TRUE
    /\ telOpen = TRUE
    /\ oaInbox = <<>>
    /\ oaSent = 0
    /\ toModel = <<>>
    /\ toTwilio = <<>>
    /\ closeCalls = 0
    /\ twLog = <<>>
    /\ oaLog = <<>>
    /\ audio_packets_sent = 0
    /\ conversation_transcript = <<>>
    /\ call_outcome = "None"
    /\ conversation_state = "initial"
    /\ current_appointment = NoAppointment
    /\ proposed_times = <<>>
    /\ selected_time = NoTime
    /\ lastOp = "none"
    /\ lastText = ""
    /\ lastIntent = "none"
    /\ lastSlots = <<>>
    /\ lastOutcome = NoOutcome
    /\ appointments = InitialAppointments
    /\ now = 0
    /\ convOps = 0
    /\ hPc = "initialize"
    /\ attempts = 0
    /\ setupOutcome = "pending"
    /\ setupSent = <<>>
    /\ connects = 1
    /\ calls = PlacedCalls
    /\ ServerConstructed

CallNext ==
    \/ InitializeSession
    \/ \E r \in SetupResponses : PollAttempt(r)
    \/ SendInitialConversationItem
    \/ ProcessAudioStreamsStarts
    \/ Next

CallSpec == CallInit /\ [][CallNext]_vars

\* the server has just started: no call, no connection, nothing stored
ServerInit ==
    /\ twPc = "idle"
    /\ twExit = "none"
    /\ oaPc = "idle"
    /\ oaExit = "none"
    /\ returned = FALSE
    /\ wsOpen = FALSE
    /\ telOpen = FALSE
    /\ oaInbox = <<>>
    /\ oaSent = 0
    /\ toModel = <<>>
    /\ toTwilio = <<>>
    /\ closeCalls = 0
    /\ twLog = <<>>
    /\ oaLog = <<>>
    /\ audio_packets_sent = 0
    /\ conversation_transcript = <<>>
    /\ call_outcome = "None"
    /\ conversation_state = "initial"
    /\ current_appointment = NoAppointment
    /\ proposed_times = <<>>
    /\ selected_time = NoTime
    /\ lastOp = "none"
    /\ lastText = ""
    /\ lastIntent = "none"
    /\ lastSlots = <<>>
    /\ lastOutcome = NoOutcome
    /\ appointments = InitialAppointments
    /\ now = 0
    /\ convOps = 0
    /\ hPc = "idle"
    /\ attempts = 0
    /\ setupOutcome = "pending"
    /\ setupSent = <<>>
    /\ connects = 0
    /\ calls = NoCalls
    /\ ServerConstructed

ServerNext ==
    \/ \E req \in MakeCallRequests, created \in BOOLEAN : MakeOutboundCall(req, created)
    \/ \E w \in Sockets : Accept(w)
    \/ \E w \in Sockets, e \in HandshakeEvents : ReceiveHandshake(w, e)
    \/ \E w \in Sockets, ok \in BOOLEAN : RelayStarts(w, ok)
    \/ \E w \in Sockets, outcome \in SessionOutcomes : RelayEnds(w, outcome)

ServerSpec == ServerInit /\ [][ServerNext]_vars

(***************************************************************************)
(* Properties                                                              *)
(***************************************************************************)
Last(seq) == seq[Len(seq)]

\* one phase follows another in initial -> {confirming|rescheduling} -> completed
Forward(p, q) ==
    \/ p = q
    \/ p = "initial" /\ q \in {"confirming", "rescheduling"}
    \/ p \in {"confirming", "rescheduling"} /\ q = "completed"

\* C1 (as stated): under any sequence of set_appointment and
\* process_user_response the phase never moves backward.
C1_PhaseNeverReverts ==
    [][Forward(conversation_state, conversation_state')]_vars

\* C1 (amended): process_user_response never moves the phase backward, and
\* set_appointment puts the phase back to initial whatever it was.
C1_PhaseForwardUntilReset ==
    [][/\ lastOp' = "process_user_response"
            => Forward(conversation_state, conversation_state')
       /\ lastOp' = "set_appointment" => conversation_state' = "initial"
       /\ lastOp' = "clock" => conversation_state' = conversation_state]_vars

\* a conversation has run to completed through process_user_response
C1_Witness ==
    /\ conversation_state = "completed"
    /\ lastOp = "process_user_response"
    /\ lastIntent \in {"complete", "reschedule_confirmed"}

\* the media frames taken while the model connection was open
ForwardedMedia ==
    SelectSeq(twLog, LAMBDA e : /\ e.frame.json
                                /\ e.frame.event = "media"
                                /\ e.frame.payload # Absent
                                /\ e.open)

\* C2: the messages sent to the model are exactly one
\* input_audio_buffer.append per media frame taken while the model connection
\* was open, with that frame's payload, in the order the frames were taken.
C2_OneAppendPerMedia ==
    toModel = [i \in 1..Len(ForwardedMedia) |-> AudioAppend(ForwardedMedia[i].frame.payload)]

\* two media frames with different payloads were forwarded
C2_Witness ==
    /\ Len(toModel) = 2
    /\ toModel[1].audio # toModel[2].audio

C4_StopUnwindsBothLoops ==
    /\ (twExit = "stop") ~> (twPc = "done" /\ oaPc = "done" /\ returned)
    /\ [][twExit = "stop" => twLog' = twLog]_vars

\* the relay returned after a stop, the model loop having drained a message
C4_Witness ==
    /\ twExit = "stop"
    /\ oaExit = "closed"
    /\ returned
    /\ Len(oaLog) > 0

\* C5 (as stated): once the model connection is closed no audio is sent in
\* either direction.
C5_NoAudioAfterClose ==
    [][~wsOpen => toModel' = toModel /\ toTwilio' = toTwilio]_vars

\* C6 (as stated): once one loop has ended, eventually both have ended and
\* the model connection is closed.
C6_OneLoopEndsRelay ==
    (twPc = "done" \/ oaPc = "done") ~> (twPc = "done" /\ oaPc = "done" /\ ~wsOpen)

MalformedTw(f) == ~f.json \/ f.event = Absent
MalformedOa(m) == ~m.json \/ m.type = Absent

\* C7 (as stated): a loop that takes a malformed frame is still running
\* afterwards.
C7_MalformedFrameSkipped ==
    [][/\ (twLog' # twLog /\ MalformedTw(Last(twLog').frame)) => twPc' = "run"
       /\ (oaLog' # oaLog /\ MalformedOa(Last(oaLog').msg)) => oaPc' = "run"]_vars

C9_UndecodableDeltaSkipped ==
    [][(/\ oaLog' # oaLog
        /\ IsAudioDelta(Last(oaLog').msg)
        /\ ~Decodable(Last(oaLog').msg) \/ ~Last(oaLog').tel)
          => toTwilio' = toTwilio /\ oaPc' = "run"]_vars

\* an undecodable delta was skipped and the delta after it was forwarded
C9_Witness ==
    /\ Len(oaLog) = 2
    /\ IsAudioDelta(oaLog[1].msg) /\ ~Decodable(oaLog[1].msg)
    /\ IsAudioDelta(oaLog[2].msg) /\ Decodable(oaLog[2].msg)
    /\ Len(toTwilio) = 1

\* the audio deltas that produced a telephony frame
SentDeltas ==
    SelectSeq(oaLog, LAMBDA e : IsAudioDelta(e.msg) /\ Decodable(e.msg) /\ e.tel)

\* correctly padded base64 text: alphabet characters only, whole quanta,
\* padding at the end only, no leftover bits
Canonical(p) ==
    LET n == Len(p)
        pads == IF n >= 2 /\ SubSeq(p, n - 1, n) = "==" THEN 2
                ELSE IF n >= 1 /\ CharAt(p, n) = "=" THEN 1 ELSE 0
    IN /\ n % 4 = 0
       /\ \A i \in 1..(n - pads) : IsB64Char(CharAt(p, i))
       /\ pads = 2 => B64Value(CharAt(p, n - 2)) % 16 = 0
       /\ pads = 1 => B64Value(CharAt(p, n - 1)) % 4 = 0

\* the bytes a payload sent to telephony decodes to
DecodedOutput == [p \in {ReencodedPayload[q] : q \in AudioPayloads} |-> b64decode(p)]

CanonicalPayloads == {p \in AudioPayloads : Canonical(p)}

\* C10 (as stated): the payload of every frame sent to telephony is the
\* payload of the audio delta it came from, character for character.
C10_PayloadByteIdentical ==
    /\ Len(toTwilio) = Len(SentDeltas)
    /\ \A i \in 1..Len(toTwilio) : toTwilio[i].payload = SentDeltas[i].msg.str

\* C10 (amended): the payload sent to telephony decodes to the same bytes as
\* the payload received, and is the received payload itself when that is
\* canonical base64.
C10_PayloadSameAudio ==
    /\ Len(toTwilio) = Len(SentDeltas)
    /\ \A i \in 1..Len(toTwilio) :
          /\ DecodedOutput[toTwilio[i].payload] = DecodedPayload[SentDeltas[i].msg.str]
          /\ SentDeltas[i].msg.str \in CanonicalPayloads
                => toTwilio[i].payload = SentDeltas[i].msg.str

\* a canonical and a non-canonical payload were both relayed
C10_Witness ==
    /\ Len(toTwilio) = 2
    /\ \E i, j \in 1..2 : /\ SentDeltas[i].msg.str \in CanonicalPayloads
                          /\ SentDeltas[j].msg.str \notin CanonicalPayloads

\* the decodable, non-empty audio deltas the model loop has taken
DecodableDeltas ==
    SelectSeq(oaLog, LAMBDA e : IsAudioDelta(e.msg) /\ Decodable(e.msg))

\* toTwilio is, frame for frame, the media frames of the deltas in source
FramesOf(source) ==
    /\ Len(toTwilio) = Len(source)
    /\ \A i \in 1..Len(toTwilio) :
          /\ toTwilio[i].event = "media"
          /\ toTwilio[i].streamSid = StreamSid
          /\ toTwilio[i].payload = ReencodedPayload[source[i].msg.str]

\* a model message of another type adds no frame to telephony
OtherTypesSendNothing ==
    (oaLog' # oaLog /\ ~IsAudioDelta(Last(oaLog').msg)) => toTwilio' = toTwilio

\* C11 (as stated): the media frames sent to telephony are, in order, the
\* decodable non-empty audio deltas the model loop received, each addressed
\* to the call's stream id, and a model message of any other type adds no
\* telephony frame.
C11_FramesAreDecodableDeltas ==
    /\ [] FramesOf(DecodableDeltas)
    /\ [][OtherTypesSendNothing]_vars

\* C11 (amended): the media frames sent to telephony are, in order, the
\* decodable non-empty audio deltas the model loop received while telephony
\* was still connected, each addressed to the call's stream id; a delta
\* taken after telephony has gone, and a model message of any other type,
\* adds no telephony frame.
C11_FramesAreDeliveredDeltas ==
    /\ [] FramesOf(SentDeltas)
    /\ [][OtherTypesSendNothing]_vars
    /\ [][(oaLog' # oaLog /\ ~Last(oaLog').tel) => toTwilio' = toTwilio]_vars

\* a content delta was booked in the transcript and the audio delta after it
\* was forwarded
C11_Witness ==
    /\ Len(oaLog) = 2
    /\ oaLog[1].msg.type = "response.content.delta"
    /\ Len(conversation_transcript) = 3
    /\ IsAudioDelta(oaLog[2].msg)
    /\ Len(toTwilio) = 1

Range(seq) == {seq[i] : i \in 1..Len(seq)}

\* C12 (as stated): when the set-up poll has used its 5 attempts without a
\* session.created, initialize_session raises: the opening line is not sent
\* and the relay is not started.
C12_UnconfirmedSetupFails ==
    setupOutcome = "unconfirmed" =>
        /\ hPc = "ended"
        /\ "response.create" \notin Range(setupSent)
        /\ twPc = "idle"
        /\ oaPc = "idle"

\* C13: once the model has answered the session set-up with an error event
\* the call is over: the opening line is never sent, nothing is relayed in
\* either direction, the loops are never started, the call store keeps what
\* it held and no second model connection is made.
C13_SetupErrorIsFatal ==
    setupOutcome = "error" =>
        /\ hPc = "ended"
        /\ ~wsOpen
        /\ setupSent = <<"session.update">>
        /\ conversation_transcript = <<SystemTurn>>
        /\ toModel = <<>>
        /\ toTwilio = <<>>
        /\ twPc = "idle"
        /\ oaPc = "idle"
        /\ calls = PlacedCalls
        /\ connects = 1

\* an error event ended the set-up and telephony then hung up
C13_Witness ==
    /\ setupOutcome = "error"
    /\ hPc = "ended"
    /\ ~telOpen

\* the step is one process_user_response call
Responds == lastOp' = "process_user_response" /\ convOps' = convOps + 1

\* C14: process_user_response in phase initial on a text that contains a
\* confirm word moves the phase to confirming and answers with intent
\* confirm; the proposed slots, the selected slot and the store stay as they
\* were.
C14_ConfirmFromInitial ==
    [][(/\ Responds
        /\ conversation_state = "initial"
        /\ AnyIn(ConfirmWords, LowerOf[lastText']))
          => /\ conversation_state' = "confirming"
             /\ lastIntent' = "confirm"
             /\ proposed_times' = proposed_times
             /\ selected_time' = selected_time
             /\ appointments' = appointments]_vars

\* a confirm was taken in a second conversation, with slots proposed and a
\* slot selected by the one before it
C14_Witness ==
    /\ conversation_state = "confirming"
    /\ lastOp = "process_user_response"
    /\ lastIntent = "confirm"
    /\ proposed_times # <<>>
    /\ selected_time # NoTime

\* the slots of the store that lie within the 7 days after time t
SlotsWithinWeek(t) ==
    {AvailableSlots[i] : i \in {j \in 1..Len(AvailableSlots) :
                                   t <= AvailableSlots[j] /\ AvailableSlots[j] <= t + 7 * 24}}

\* seq lists, earliest first, the min(3, n) earliest of the n slots in S
EarliestThreeOf(seq, S) ==
    /\ Len(seq) = IF Cardinality(S) < 3 THEN Cardinality(S) ELSE 3
    /\ \A i \in 1..Len(seq) : seq[i] \in S
    /\ \A i \in 1..(Len(seq) - 1) : seq[i] < seq[i + 1]
    /\ \A x \in S : (\A i \in 1..Len(seq) : seq[i] # x) =>
                        \A i \in 1..Len(seq) : seq[i] < x

\* C15 (as stated): process_user_response in phase initial on a text with a
\* reschedule word and no confirm word moves the phase to rescheduling and
\* returns, earliest first, the min(3, n) earliest of the n slots available
\* within the next 7 days.
C15_RescheduleOffersEarliest ==
    [][(/\ Responds
        /\ conversation_state = "initial"
        /\ ~AnyIn(ConfirmWords, LowerOf[lastText'])
        /\ AnyIn(RescheduleWords, LowerOf[lastText']))
          => /\ conversation_state' = "rescheduling"
             /\ lastIntent' = "reschedule"
             /\ EarliestThreeOf(lastSlots', SlotsWithinWeek(now))]_vars

\* the text names one of the offered slots, by ordinal or by a weekday, date
\* or time of it
MatchesOfferedSlot(text) ==
    LET offered == FirstThree(proposed_times) IN
    \/ OrdinalIndex(text) # NoIndex /\ OrdinalIndex(text) < Len(offered)
    \/ \E i \in 1..Len(offered) : SlotMentioned(offered[i], text)

ManagerUnchanged ==
    /\ conversation_state' = conversation_state
    /\ proposed_times' = proposed_times
    /\ selected_time' = selected_time
    /\ appointments' = appointments

\* C16: process_user_response in phase initial on a text with neither a
\* confirm nor a reschedule word answers unclear, and in phase rescheduling
\* on a text that names no offered slot answers unclear_time; in both cases
\* the phase, the proposed slots, the selected slot and the store are as they
\* were before the call.
C16_UnclearChangesNothing ==
    [][Responds =>
        /\ (/\ conversation_state = "initial"
            /\ ~AnyIn(ConfirmWords, LowerOf[lastText'])
            /\ ~AnyIn(RescheduleWords, LowerOf[lastText']))
              => lastIntent' = "unclear" /\ ManagerUnchanged
        /\ (/\ conversation_state = "rescheduling"
            /\ ~MatchesOfferedSlot(LowerOf[lastText']))
              => lastIntent' = "unclear_time" /\ ManagerUnchanged]_vars

\* five slots are proposed and the user asks for the day of the fourth,
\* which was not offered
C16_Witness ==
    /\ conversation_state = "rescheduling"
    /\ lastOp = "process_user_response"
    /\ lastIntent = "unclear_time"
    /\ lastText = "Friday please"
    /\ Len(proposed_times) = 5

\* C17 (as stated): process_user_response in phase confirming on a text
\* with no question word moves the phase to completed, answers with intent
\* complete, and get_conversation_outcome then reports confirmed; on a text
\* with a question word the phase stays confirming and the intent is
\* question.
C17_ConfirmingCompletes ==
    [][(Responds /\ conversation_state = "confirming") =>
        IF AnyIn(QuestionWords, LowerOf[lastText'])
        THEN /\ conversation_state' = "confirming"
             /\ lastIntent' = "question"
        ELSE /\ conversation_state' = "completed"
             /\ lastIntent' = "complete"
             /\ get_conversation_outcome'.outcome = "confirmed"]_vars

\* the phrases that name the k-th offered slot
OrdinalPhrases ==
    <<{"first", "1st", "option 1", "option one"},
      {"second", "2nd", "option 2", "option two"},
      {"third", "3rd", "option 3", "option three"}>>

NamesOrdinal(text, k) == AnyIn(OrdinalPhrases[k], text)

\* the text names the k-th slot and no other by ordinal
NamesOnlyOrdinal(text, k) ==
    /\ NamesOrdinal(text, k)
    /\ \A j \in 1..3 : j # k => ~NamesOrdinal(text, j)

\* the store after the attached appointment was moved to slot
StoreMovedTo(slot) ==
    \A i \in DOMAIN appointments :
        appointments'[i] =
            IF ~current_appointment.none /\ current_appointment.appointment_id = i
            THEN [datetime |-> slot, status |-> "rescheduled"]
            ELSE appointments[i]

\* C18: process_user_response in phase rescheduling on a text that names
\* the k-th offered slot by ordinal, k within the proposed slots, selects
\* proposed slot k, moves the phase to completed, answers with intent
\* reschedule_confirmed, moves the attached appointment in the store to that
\* slot, and get_conversation_outcome then reports rescheduled with that slot
\* as new_datetime.
C18_OrdinalSelectsSlot ==
    [][\A k \in 1..3 :
        (/\ Responds
         /\ conversation_state = "rescheduling"
         /\ NamesOnlyOrdinal(LowerOf[lastText'], k)
         /\ k <= Len(proposed_times))
          => /\ selected_time' = proposed_times[k]
             /\ conversation_state' = "completed"
             /\ lastIntent' = "reschedule_confirmed"
             /\ StoreMovedTo(proposed_times[k])
             /\ get_conversation_outcome'.outcome = "rescheduled"
             /\ get_conversation_outcome'.new_datetime = proposed_times[k]]_vars

\* appointment A001 was moved to the third of the proposed slots
C18_Witness ==
    /\ conversation_state = "completed"
    /\ lastIntent = "reschedule_confirmed"
    /\ lastText = "The third"
    /\ Len(proposed_times) >= 3
    /\ selected_time = proposed_times[3]
    /\ appointments["A001"] = [datetime |-> selected_time, status |-> "rescheduled"]

\* the text names a slot by ordinal; the lowest ordinal it names
HasOrdinal(text) == \E k \in 1..3 : NamesOrdinal(text, k)
LowestOrdinal(text) == CHOOSE k \in 1..3 :
    NamesOrdinal(text, k) /\ \A j \in 1..3 : NamesOrdinal(text, j) => k <= j

\* the positions in seq of the slots whose weekday, date or time is in text
MentionedIn(text, seq) == {i \in 1..Len(seq) : SlotMentioned(seq[i], text)}

Lowest(S) == CHOOSE i \in S : \A j \in S : i <= j

\* the call selected the slot at position k of the proposed slots
Selects(k) ==
    /\ selected_time' = proposed_times[k]
    /\ lastIntent' = "reschedule_confirmed"

SelectsNothing ==
    /\ selected_time' = selected_time
    /\ lastIntent' = "unclear_time"

\* the ordinal named in the text decides, else the first slot of candidates
\* that the text mentions
MatchesBy(candidates) ==
    (Responds /\ conversation_state = "rescheduling") =>
        LET text == LowerOf[lastText'] IN
        IF HasOrdinal(text)
        THEN IF LowestOrdinal(text) <= Len(proposed_times)
             THEN Selects(LowestOrdinal(text))
             ELSE SelectsNothing
        ELSE IF MentionedIn(text, candidates) = {}
             THEN SelectsNothing
             ELSE Selects(Lowest(MentionedIn(text, candidates)))

\* C19 (as stated): in phase rescheduling a text with an ordinal phrase
\* selects by the ordinal alone, whatever weekday, date or time it also
\* holds; a text without one selects the lowest-index proposed slot whose
\* weekday, month-day, hour:minute or hour-am/pm occurs in it.
C19_OrdinalThenLowestProposed ==
    [][MatchesBy(proposed_times)]_vars

\* C19 (amended): as above, the slots looked at for a weekday, date or time
\* being the first three proposed slots only.
C19_OrdinalThenLowestOffered ==
    [][MatchesBy(FirstThree(proposed_times))]_vars

\* the text names the first slot by ordinal and the weekday of the third:
\* the first slot was selected
C19_Witness ==
    /\ lastText = "The first, on Friday"
    /\ lastIntent = "reschedule_confirmed"
    /\ Len(proposed_times) >= 3
    /\ selected_time = proposed_times[1]
    /\ SlotMentioned(proposed_times[3], LowerOf[lastText])
    /\ ~SlotMentioned(proposed_times[1], LowerOf[lastText])

\* C20 (as stated): in every reachable state a selected slot is one of the
\* first three proposed slots, and the slots described in a reply are the
\* leading ones of those first three.
C20_OnlyFirstThree ==
    /\ selected_time # NoTime =>
           \E i \in 1..Len(FirstThree(proposed_times)) : proposed_times[i] = selected_time
    /\ Len(lastSlots) <= 3
    /\ \A i \in 1..Len(lastSlots) :
           i <= Len(proposed_times) /\ lastSlots[i] = proposed_times[i]

\* the outcome tag, the new datetime and the phase a dictionary of
\* get_conversation_outcome carries for a phase and a selected slot
OutcomeOf(phase, slot) ==
    CASE phase = "completed" /\ slot # NoTime -> <<"rescheduled", slot, Absent>>
      [] phase = "completed" /\ slot = NoTime -> <<"confirmed", NoTime, Absent>>
      [] OTHER -> <<"incomplete", NoTime, phase>>

Reads == lastOp' = "get_conversation_outcome"

\* C21: get_conversation_outcome reads only: completed with a selected slot
\* gives rescheduled with that slot as new_datetime, completed without one
\* gives confirmed, any other phase gives incomplete with the phase; the
\* call changes nothing of the manager or the store, and a second call with
\* no input in between returns what the first returned.
C21_OutcomeReadOnly ==
    [][Reads =>
         /\ <<lastOutcome'.outcome, lastOutcome'.new_datetime, lastOutcome'.state>>
                = OutcomeOf(conversation_state, selected_time)
         /\ ManagerUnchanged
         /\ current_appointment' = current_appointment
         /\ lastOp = "get_conversation_outcome" => lastOutcome' = lastOutcome]_vars

\* the outcome was read after a slot had been selected by ordinal
C21_Witness ==
    /\ lastOp = "get_conversation_outcome"
    /\ conversation_state = "completed"
    /\ selected_time # NoTime
    /\ lastOutcome.outcome = "rescheduled"
    /\ lastOutcome.new_datetime = selected_time
    /\ lastText = "The second one works"

\* the outcome each text of a talk stands for, read off the keyword lists
KeywordOfText ==
    [t \in SessionUserTexts \cup SessionAssistantTexts |->
        CASE t \in {"Yes that works", "Your appointment is confirmed"} -> "confirmed"
          [] t \in {"I need to reschedule", "I have rescheduled you"} -> "rescheduled"
          [] OTHER -> "None"]

\* this step takes a mark with a transcript / a piece of assistant speech
TakesMark == twLog' # twLog /\ Last(twLog').frame.event = "mark"
TakesSpeech == oaLog' # oaLog /\ Last(oaLog').msg.type = "response.content.delta"

\* the text this step takes, Absent when it takes none
TextTaken ==
    IF TakesMark THEN Last(twLog').frame.value
    ELSE IF TakesSpeech THEN Last(oaLog').msg.content
    ELSE Absent

\* the texts taken so far that match a keyword list
MatchedMarks ==
    {i \in 1..Len(twLog) : /\ twLog[i].frame.event = "mark"
                           /\ KeywordOfText[twLog[i].frame.value] # "None"}
MatchedSpeech ==
    {i \in 1..Len(oaLog) : /\ oaLog[i].msg.type = "response.content.delta"
                           /\ KeywordOfText[oaLog[i].msg.content] # "None"}

\* C22: the outcome of the voice session is the value set by the most recent
\* text event that matched a keyword list and none while no event has
\* matched; an event that matches no list leaves it as it is, so once set it
\* never goes back to none.
C22_OutcomeIsLastMatch ==
    /\ [](MatchedMarks = {} /\ MatchedSpeech = {} => call_outcome = "None")
    /\ [][/\ IF TextTaken # Absent /\ KeywordOfText[TextTaken] # "None"
             THEN call_outcome' = KeywordOfText[TextTaken]
             ELSE call_outcome' = call_outcome
          /\ call_outcome # "None" => call_outcome' # "None"]_vars

\* a transcript without a keyword was taken after one that set the outcome
C22_Witness ==
    /\ Len(twLog) = 2
    /\ twLog[1].frame = MarkFrame("transcript", "I need to reschedule")
    /\ twLog[2].frame = MarkFrame("transcript", "Hello?")
    /\ call_outcome = "rescheduled"

\* the outcomes written from user transcripts and from assistant speech
UserWrites == {KeywordOfText[twLog[i].frame.value] : i \in MatchedMarks}
AssistantWrites == {KeywordOfText[oaLog[i].msg.content] : i \in MatchedSpeech}
ConflictingWrites == \E u \in UserWrites, a \in AssistantWrites : u # a

\* the turns of the relay that wrote an outcome; a turn is appended in the
\* step that writes, so the last of them is the last write
WritingTurns ==
    {i \in 3..Len(conversation_transcript) :
        KeywordOfText[conversation_transcript[i].content] # "None"}
Highest(S) == CHOOSE x \in S : \A y \in S : y <= x
LastWritten == KeywordOfText[conversation_transcript[Highest(WritingTurns)].content]

\* C23: when the user transcripts and the assistant speech have written
\* different outcomes, in whatever order the two loops ran, the outcome of
\* the call is the one written last: one of the written values, never a
\* third one and never none, and it is the one the store gets at the end.
C23_LastWriteWins ==
    ConflictingWrites =>
        /\ call_outcome = LastWritten
        /\ call_outcome \in UserWrites \cup AssistantWrites
        /\ call_outcome # "None"
        /\ hPc = "ended" /\ CallSid \in DOMAIN calls
              => calls[CallSid].outcome = call_outcome

\* the speech said confirmed, the user then asked to reschedule, and the
\* call ended with the user's outcome in the store
C23_Witness ==
    /\ ConflictingWrites
    /\ hPc = "ended"
    /\ CallSid \in DOMAIN calls
    /\ calls[CallSid].outcome = "rescheduled"
    /\ Last(conversation_transcript) = Turn("user", "I need to reschedule")
    /\ AssistantWrites = {"confirmed"}

\* C24: every mark that carries a non-empty transcript is given to the
\* conversation manager, process_user_response being run on it, and to the
\* outcome keyword detection.
C24_MarkReachesManager ==
    [][TakesMark =>
         /\ lastOp' = "process_user_response"
         /\ lastText' = Last(twLog').frame.value
         /\ convOps' = convOps + 1
         /\ KeywordOfText[TextTaken] # "None"
               => call_outcome' = KeywordOfText[TextTaken]]_vars

\* the transcripts of the marks and the speech of the messages taken so far,
\* each in the order taken
RECURSIVE MarkTextsFrom(_)
MarkTextsFrom(i) ==
    IF i > Len(twLog) THEN <<>>
    ELSE (IF /\ twLog[i].frame.json
             /\ twLog[i].frame.event = "mark"
             /\ twLog[i].frame.name = "transcript"
             /\ twLog[i].frame.value \notin {Absent, ""}
          THEN <<twLog[i].frame.value>> ELSE <<>>) \o MarkTextsFrom(i + 1)
RECURSIVE SpeechFrom(_)
SpeechFrom(i) ==
    IF i > Len(oaLog) THEN <<>>
    ELSE (IF /\ oaLog[i].msg.json
             /\ oaLog[i].msg.type = "response.content.delta"
             /\ oaLog[i].msg.delta = "obj"
             /\ oaLog[i].msg.content \notin {Absent, ""}
          THEN <<oaLog[i].msg.content>> ELSE <<>>) \o SpeechFrom(i + 1)

\* what the turns of one role say, in transcript order
RECURSIVE SaidFrom(_, _)
SaidFrom(role, i) ==
    IF i > Len(conversation_transcript) THEN <<>>
    ELSE (IF conversation_transcript[i].role = role
          THEN <<conversation_transcript[i].content>> ELSE <<>>) \o SaidFrom(role, i + 1)

IsPrefix(p, q) == Len(p) <= Len(q) /\ SubSeq(q, 1, Len(p)) = p

\* C25: during the relay the transcript only grows at its end: a step that
\* takes a user transcript or a piece of assistant speech appends that turn
\* and any other step leaves the transcript alone, so no turn is removed,
\* changed or moved, and the turns of each role stand in the order in which
\* their loop took them, however the two loops interleave.
C25_TranscriptAppendOnly ==
    /\ [](/\ SaidFrom("user", 3) = MarkTextsFrom(1)
          /\ SaidFrom("assistant", 3) = SpeechFrom(1))
    /\ [][/\ IsPrefix(conversation_transcript, conversation_transcript')
          /\ conversation_transcript' =
                IF TakesMark
                THEN Append(conversation_transcript, Turn("user", TextTaken))
                ELSE IF TakesSpeech
                THEN Append(conversation_transcript, Turn("assistant", TextTaken))
                ELSE conversation_transcript]_vars

\* the two loops took turns: user, assistant, user, assistant
C25_Witness ==
    /\ Len(conversation_transcript) = 6
    /\ conversation_transcript[3] = Turn("user", "Hello?")
    /\ conversation_transcript[4] = Turn("assistant", "One moment please")
    /\ conversation_transcript[5] = Turn("user", "I need to reschedule")
    /\ conversation_transcript[6] = Turn("assistant", "I have rescheduled you")

\* C26: once the relay of a call has ended, the store holds the final
\* transcript and the final outcome under the call id and a read returns
\* them, also for a call that was first seen at the handshake and was never
\* placed through make_call.
C26_EndedCallIsStored ==
    hPc = "ended" /\ returned =>
        /\ get_call_transcript(CallSid) = conversation_transcript
        /\ get_call_outcome(CallSid) = call_outcome

\* the handlers that have learnt their call id and have not ended
Running == {w \in Sockets : handlers[w].pc \in {"session", "relay"}}

\* C27: for a call placed through make-call with appointment data, the
\* handshake that names the call's id finds that data: the registry entry is
\* there from the moment the provider knows the call, so no start event for
\* the id is processed before it, however the request handler and the
\* stream handlers interleave.
C27_HandshakeFindsContext ==
    /\ \A sid \in DOMAIN placed :
          /\ sid \in DOMAIN active_calls
          /\ active_calls[sid].appointment_data = placed[sid]
    /\ \A w \in Sockets :
          handlers[w].call_sid \in DOMAIN placed
              => handlers[w].appointment_data = placed[handlers[w].call_sid]

\* the relay of a call placed for appointment A001 runs with that data
C27_Witness ==
    /\ handlers["W1"].pc = "relay"
    /\ handlers["W1"].call_sid \in DOMAIN placed
    /\ placed[handlers["W1"].call_sid] = [none |-> FALSE, appointment_id |-> "A001"]
    /\ handlers["W1"].appointment_data = [none |-> FALSE, appointment_id |-> "A001"]
    /\ current_appointment = [none |-> FALSE, appointment_id |-> "A001"]

\* C28: calls that run at the same time share no state of a call: what is
\* done for one call leaves the phase, the slots and the current appointment
\* of every other call alone, so a call whose relay runs still has the
\* appointment it set as the current appointment.
C28_CallsShareNothing ==
    \A w \in Sockets :
        handlers[w].pc = "relay" /\ handlers[w].appointment_data # NoAppointment
            => current_appointment = handlers[w].appointment_data

\* C29: a call id has at most one running handler: a handshake that names a
\* call id whose handler is running starts no second one, and the connection
\* recorded for a call id is that of its one running handler.
C29_OneHandlerPerCall ==
    /\ \A v, w \in Running : handlers[v].call_sid = handlers[w].call_sid => v = w
    /\ \A w \in Running :
          /\ handlers[w].call_sid \in DOMAIN active_connections
          /\ active_connections[handlers[w].call_sid] = w
    /\ \A sid \in DOMAIN active_connections :
          /\ active_connections[sid] \in Running
          /\ handlers[active_connections[sid]].call_sid = sid

\* C30: in every state of the manager the proposed slots are empty unless
\* the phase is rescheduling, and a slot is selected only when the phase is
\* completed.
C30_SlotsFollowPhase ==
    /\ conversation_state # "rescheduling" => proposed_times = <<>>
    /\ selected_time # NoTime => conversation_state = "completed"

\* the pieces of speech a relay can take, in order, and their concatenation
SpeechRuns == UNION {[1..n -> SpeechTexts] : n \in 0..MaxOaFrames}
RECURSIVE JoinFrom(_, _)
JoinFrom(run, i) == IF i > Len(run) THEN "" ELSE run[i] \o JoinFrom(run, i + 1)
AccumulatedKeywordOf == [run \in SpeechRuns |-> AssistantKeyword(JoinFrom(run, 1))]

\* C31: the outcome keyword detection on assistant speech runs over the
\* text accumulated from all the speech events of the session so far: a
\* phrase cut in two by consecutive events is detected as soon as the
\* accumulated text contains it.
C31_SplitPhraseDetected ==
    AccumulatedKeywordOf[SpeechFrom(1)] # "None"
        => call_outcome = AccumulatedKeywordOf[SpeechFrom(1)]

\* the proposed slots after a reschedule request on a store just built
FreshOffer == get_available_slots(0, 7 * 24)

\* the text names one of the slots offered out of proposed
NamesSlotOf(proposed, text) ==
    IF HasOrdinal(text) THEN LowestOrdinal(text) <= Len(proposed)
    ELSE MentionedIn(text, FirstThree(proposed)) # {}

\* the new phase and the intent ("raised" when the call raises) for a phase
\* and a text, given the proposed slots, whether an appointment is attached
\* and the slots available in the coming week
ResultOf(phase, text, proposed, attached, available) ==
    CASE phase = "initial" ->
            IF AnyIn(ConfirmWords, text) THEN <<"confirming", "confirm">>
            ELSE IF AnyIn(RescheduleWords, text)
            THEN <<"rescheduling", IF available = <<>> THEN "raised" ELSE "reschedule">>
            ELSE <<"initial", "unclear">>
      [] phase = "confirming" ->
            IF AnyIn(QuestionWords, text) THEN <<"confirming", "question">>
            ELSE <<"completed", IF attached THEN "complete" ELSE "raised">>
      [] phase = "rescheduling" ->
            IF NamesSlotOf(proposed, text) THEN <<"completed", "reschedule_confirmed">>
            ELSE <<"rescheduling", "unclear_time">>
      [] phase = "completed" ->
            IF AnyIn(HelpWords, text) THEN <<"completed", "additional_help">>
            ELSE <<"completed", "goodbye">>

\* C32 (as stated): the new phase and the intent of process_user_response
\* are a function of the phase and the text alone: in every state they are
\* what they are for a manager with an appointment attached and the slots of
\* a store just built, whatever the proposed slots, the selected slot and
\* the appointment context of the state.
C32_PhaseAndTextDecide ==
    [][Responds =>
         <<conversation_state', lastIntent'>> =
             ResultOf(conversation_state, LowerOf[lastText'],
                      FreshOffer, TRUE, FreshOffer)]_vars

\* C32 (amended): the new phase and the intent of process_user_response, or
\* that it raises, are a function of the phase, the text, the proposed
\* slots, whether an appointment is attached and the slots available in the
\* coming week; the selected slot, which appointment is attached and the
\* appointments of the store play no part.
C32_PhaseTextAndOfferDecide ==
    [][Responds =>
         <<conversation_state', lastIntent'>> =
             ResultOf(conversation_state, LowerOf[lastText'], proposed_times,
                      ~current_appointment.none,
                      get_available_slots(now, now + 7 * 24))]_vars

\* "Friday please" chose a slot out of an offer made later in the week; on
\* the offer of a store just built the same text names no slot
C32_Witness ==
    /\ lastOp = "process_user_response"
    /\ lastText = "Friday please"
    /\ lastIntent = "reschedule_confirmed"
    /\ conversation_state = "completed"
    /\ proposed_times # FreshOffer
    /\ ~NamesSlotOf(FreshOffer, LowerOf["Friday please"])

\* C33: with no appointment attached, process_user_response returns a reply
\* in every phase and for every text: it never raises.
C33_RepliesWithoutAppointment ==
    (current_appointment.none /\ lastOp = "process_user_response")
        => lastIntent # "raised"

\* C36: when process_user_response raises, the phase, the proposed slots
\* and the selected slot are what they were before the call.
C36_UnchangedOnRaise ==
    [][(Responds /\ lastIntent' = "raised") =>
         UNCHANGED <<conversation_state, proposed_times, selected_time>>]_vars

\* C37: in every reachable state with phase rescheduling at least one slot
\* is proposed.
C37_ReschedulingHasSlot ==
    conversation_state = "rescheduling" => Len(proposed_times) >= 1

\* C34: once the media-stream handler of a call has exited, by whatever
\* path, the registry of calls (active_calls) holds no entry for its call
\* id.
C34_DroppedOnTermination ==
    \A w \in Sockets :
        (handlers[w].pc = "done" /\ handlers[w].call_sid # Absent)
            => handlers[w].call_sid \notin DOMAIN active_calls

\* C35: a conversation that set_appointment started and that took the
\* confirm path to completed reads as confirmed: get_conversation_outcome
\* never answers rescheduled with a slot selected in an earlier conversation.
C35_ConfirmPathReadsConfirmed ==
    (/\ lastOp = "get_conversation_outcome"
     /\ lastIntent = "complete"
     /\ lastOutcome.state = Absent)
        => /\ lastOutcome.outcome = "confirmed"
           /\ lastOutcome.new_datetime = NoTime

\* a request to /make-call has been answered with an error: no stream
\* handler has moved and the status is 400, 404 or 500
RequestFails == UNCHANGED handlers /\ response' \in {400, 404, 500}

\* C38: a request to /make-call that fails (unknown appointment id, number
\* not allowed, provider call fails, or a bad body) adds no entry to
\* active_calls or to TwilioHandler.calls and changes no entry of them.
C38_FailedRequestChangesNothing ==
    [][RequestFails => UNCHANGED <<active_calls, calls>>]_vars

\* a request was refused for its unknown appointment after another had
\* placed a call: both stores hold that call and nothing else
C38_Witness ==
    /\ response = 404
    /\ DOMAIN active_calls # {}
    /\ DOMAIN active_calls = DOMAIN placed
    /\ \A sid \in DOMAIN placed : sid \in DOMAIN calls

\* C39: the confirm path leaves the appointment store alone: a response in
\* phase initial or confirming changes no appointment, and the store
\* changes only in a response that ends in reschedule_confirmed, with an
\* appointment attached that carries an appointment id.
C39_StoreChangedByRescheduleOnly ==
    [][/\ (Responds /\ conversation_state \in {"initial", "confirming"})
              => UNCHANGED appointments
       /\ appointments' # appointments
              => /\ Responds
                 /\ conversation_state = "rescheduling"
                 /\ lastIntent' = "reschedule_confirmed"
                 /\ ~current_appointment.none
                 /\ current_appointment.appointment_id # Absent]_vars

\* the conversation about A001 went from initial over confirming to
\* completed, and the store is as it was built
C39_Witness ==
    /\ lastOp = "process_user_response"
    /\ lastIntent = "complete"
    /\ conversation_state = "completed"
    /\ current_appointment.appointment_id = "A001"
    /\ appointments = InitialAppointments

\* the slots that a reschedule has given to an appointment of the store
TakenSlots ==
    {appointments[id].datetime :
        id \in {i \in DOMAIN appointments : appointments[i].status = "rescheduled"}}

\* C40: a slot that a reschedule has taken is not proposed again by a later
\* reschedule request, and at no time do two appointments of the store hold
\* the same datetime.
C40_TakenSlotNotOfferedAgain ==
    /\ [](\A i, j \in DOMAIN appointments :
              appointments[i].datetime = appointments[j].datetime => i = j)
    /\ [][(Responds /\ lastIntent' = "reschedule")
              => Range(proposed_times') \cap TakenSlots = {}]_vars
====
